---------------------------- MODULE Spec2Model ----------------------------
(***************************************************************************)
(* Model of the user-similarity matching subsystem of GraduateSupportApp:  *)
(*   backend/user_connectivity/embeddings.py  (profile text, embedding)    *)
(*   backend/user_connectivity/vector_db.py   (UserVectorDB)               *)
(*   backend/user_onboarding.py  (the sessions)                            *)
(*   backend/app.py  (the onboarding, matching and register endpoints)     *)
(*                                                                         *)
(* Specifications                                                          *)
(*   Spec            one caller making the calls of UserVectorDB in turn   *)
(*   SpecConc        two threads making one call each on one UserVectorDB  *)
(*   SpecMetadata    _prepare_metadata and _parse_metadata on lists        *)
(*   SpecStore       the onboarding's sessions added to a persisted store  *)
(*   SpecApi         the requests to the onboarding and matching endpoints *)
(*   SpecEmbeddings  create_user_text and the embedding functions          *)
(*   SpecDb          get_db called from two threads                        *)
(*   SpecRegister    register called from two threads                      *)
(*   SpecShared      two threads saving preferences and adding sessions    *)
(*                                                                         *)
(* Representation                                                          *)
(*   - a Python str is a sequence of one-character strings;                *)
(*   - Python None is the empty tuple <<>> and a present optional value v   *)
(*     is the one-element tuple <<v>>;                                     *)
(*   - where a str or a list may be None instead (a major, a location, the *)
(*     goals and favorites of the preferences, an item of such a list),    *)
(*     None is the str NoneStr or the list NoneList, which no str or list  *)
(*     of the inputs equals; a key that a dict lacks reads as None, as     *)
(*     dict.get returns it;                                                *)
(*   - a user id is an integer: 1..NumIds are usable ids, EmptyId is the   *)
(*     empty string '' and NoId is an absent / None id;                    *)
(*   - an embedding is a vector of EmbDim integers and the collection's    *)
(*     distance is the squared L2 distance chromadb uses by default;       *)
(*   - a similarity s of the program is kept as the integer SimScale * s.  *)
(***************************************************************************)
EXTENDS Integers, Sequences, FiniteSets, TLC

(***************************************************************************)
(* Bounds of the model.                                                    *)
(***************************************************************************)
NumIds == 3        \* usable user ids 1..NumIds
MaxTopK == 2       \* top_k ranges over 1..MaxTopK
EmbDim == 2        \* dimension of the modelled embedding vectors
MaxItems == 2      \* longest list of goals in the metadata round trip

EmptyId == 0       \* the id ''
NoId == 0 - 1      \* a session without 'id' (or with id None)
SimScale == 2      \* similarity is stored as SimScale * similarity

UserIds == 1..NumIds
IdValues == UserIds \cup {EmptyId, NoId}
TopKs == 1..MaxTopK

PyNone == <<>>
Some(v) == <<v>>
IsNone(o) == Len(o) = 0
Val(o) == o[1]

NoneStr == <<"None">>
NoneList == <<NoneStr>>

Max(a, b) == IF a >= b THEN a ELSE b
Min(a, b) == IF a <= b THEN a ELSE b

(***************************************************************************)
(* Python string and list helpers.                                         *)
(***************************************************************************)
IsSpace(c) == c = " "

RECURSIVE LStrip(_)
LStrip(s) == IF s = <<>> THEN <<>>
             ELSE IF IsSpace(Head(s)) THEN LStrip(Tail(s)) ELSE s

RECURSIVE RStrip(_)
RStrip(s) == IF s = <<>> THEN <<>>
             ELSE IF IsSpace(s[Len(s)]) THEN RStrip(SubSeq(s, 1, Len(s) - 1))
             ELSE s

\* str.strip()
Strip(s) == RStrip(LStrip(s))

\* sep.join(items)
RECURSIVE Join(_, _)
Join(sep, items) ==
    IF items = <<>> THEN <<>>
    ELSE IF Len(items) = 1 THEN items[1]
    ELSE items[1] \o sep \o Join(sep, Tail(items))

\* the items that are not blank, as they are
RECURSIVE ValidItemsUnstripped(_)
ValidItemsUnstripped(items) ==
    IF items = <<>> THEN <<>>
    ELSE IF Head(items) # NoneStr /\ Strip(Head(items)) # <<>>
         THEN <<Head(items)>> \o ValidItemsUnstripped(Tail(items))
         ELSE ValidItemsUnstripped(Tail(items))

\* [f.strip() for f in items if f and f.strip()]: an item that is None or
\* blank is left out
RECURSIVE ValidItems(_)
ValidItems(items) ==
    IF items = <<>> THEN <<>>
    ELSE IF Head(items) # NoneStr /\ Strip(Head(items)) # <<>>
         THEN <<Strip(Head(items))>> \o ValidItems(Tail(items))
         ELSE ValidItems(Tail(items))

CommaSpace == <<",", " ">>
DotSpace == <<".", " ">>
MajorLabel == <<"M", "a", "j", "o", "r", ":", " ">>
LocationLabel == <<"L", "o", "c", "a", "t", "i", "o", "n", ":", " ">>
InterestsLabel == <<"I", "n", "t", "e", "r", "e", "s", "t", "s", ":", " ">>
GoalsLabel == <<"C", "a", "r", "e", "e", "r", " ", "g", "o", "a", "l", "s", ":", " ">>

(***************************************************************************)
(* embeddings.create_user_text: the parts that are present and non-blank,  *)
(* in the order Major, Location, Interests, Career goals, joined by '. '.  *)
(***************************************************************************)
MajorPart(session) ==
    IF session.major # NoneStr /\ session.major # <<>>
       /\ Strip(session.major) # <<>>
    THEN <<MajorLabel \o Strip(session.major)>> ELSE <<>>

LocationPart(session) ==
    IF session.location # NoneStr /\ session.location # <<>>
       /\ Strip(session.location) # <<>>
    THEN <<LocationLabel \o Strip(session.location)>> ELSE <<>>

InterestsPart(session) ==
    IF IsNone(session.preferences) THEN <<>>
    ELSE LET favorites == Val(session.preferences).favorites
         IN IF favorites # NoneList /\ favorites # <<>>
               /\ ValidItems(favorites) # <<>>
            THEN <<InterestsLabel \o Join(CommaSpace, ValidItems(favorites))>>
            ELSE <<>>

GoalsPart(session) ==
    IF IsNone(session.preferences) THEN <<>>
    ELSE LET goals == Val(session.preferences).goals
         IN IF goals # NoneList /\ goals # <<>>
               /\ ValidItems(goals) # <<>>
            THEN <<GoalsLabel \o Join(CommaSpace, ValidItems(goals))>>
            ELSE <<>>

\* a text that starts with the name of the session
create_user_textWithName(session) ==
    Join(DotSpace, << <<"N", "a", "m", "e", ":", " ">> \o session.name >>
                   \o MajorPart(session) \o LocationPart(session)
                   \o InterestsPart(session) \o GoalsPart(session))

create_user_text(session) ==
    Join(DotSpace, MajorPart(session) \o LocationPart(session)
                   \o InterestsPart(session) \o GoalsPart(session))

(***************************************************************************)
(* The sentence encoder (model.encode followed by tolist) is a             *)
(* deterministic function from a text to a vector of fixed dimension.      *)
(* Here component i counts the characters of class i in the text, so that  *)
(* equal texts have equal vectors, and different texts may or may not.     *)
(***************************************************************************)
CharClass(c) == IF c = "a" THEN 1 ELSE IF c = "b" THEN 2 ELSE 3

RECURSIVE CountClass(_, _)
CountClass(text, k) ==
    IF text = <<>> THEN 0
    ELSE (IF CharClass(Head(text)) = k THEN 1 ELSE 0) + CountClass(Tail(text), k)

Encode(text) == [i \in 1..EmbDim |-> CountClass(text, i)]

\* embeddings.get_user_embedding
get_user_embedding(session) == Encode(create_user_text(session))

\* squared L2 distance of two vectors (the collection's default space)
RECURSIVE SumSq(_, _, _)
SumSq(u, v, i) ==
    IF i = 0 THEN 0
    ELSE (u[i] - v[i]) * (u[i] - v[i]) + SumSq(u, v, i - 1)

Distance(u, v) == SumSq(u, v, EmbDim)

(***************************************************************************)
(* json.dumps / json.loads on lists of strings and on None.                *)
(* dumps writes [ "item", "item" ] with ', ' between the items and escapes *)
(* the quote and the backslash with a backslash, and writes null for None. *)
(* loads returns [ok |-> TRUE, val |-> list] (None for the text null) or   *)
(* [ok |-> FALSE] for json.JSONDecodeError.                                *)
(***************************************************************************)
Quote == "\""
Backslash == "\\"

\* an escape that forgets the backslash
RECURSIVE JsonEscapeQuoteOnly(_)
JsonEscapeQuoteOnly(s) ==
    IF s = <<>> THEN <<>>
    ELSE (IF Head(s) = Quote THEN <<Backslash, Head(s)>> ELSE <<Head(s)>>)
         \o JsonEscapeQuoteOnly(Tail(s))

RECURSIVE JsonEscape(_)
JsonEscape(s) ==
    IF s = <<>> THEN <<>>
    ELSE (IF Head(s) = Quote \/ Head(s) = Backslash
          THEN <<Backslash, Head(s)>> ELSE <<Head(s)>>) \o JsonEscape(Tail(s))

JsonString(s) == <<Quote>> \o JsonEscape(s) \o <<Quote>>

JsonNull == <<"n", "u", "l", "l">>

\* the JSON texts of the items of a list: a string, or null for None
RECURSIVE JsonStrings(_)
JsonStrings(items) ==
    IF items = <<>> THEN <<>>
    ELSE <<IF Head(items) = NoneStr THEN JsonNull ELSE JsonString(Head(items))>>
         \o JsonStrings(Tail(items))

json_dumps(items) ==
    IF items = NoneList THEN JsonNull
    ELSE <<"[">> \o Join(CommaSpace, JsonStrings(items)) \o <<"]">>

JsonError == [ok |-> FALSE, val |-> <<>>, pos |-> 0]

\* index of the first non-blank character of t at or after i (Len(t)+1 if none)
RECURSIVE SkipSpace(_, _)
SkipSpace(t, i) ==
    IF i <= Len(t) /\ IsSpace(t[i]) THEN SkipSpace(t, i + 1) ELSE i

\* the characters of a JSON string whose opening quote is before position i
RECURSIVE ParseChars(_, _, _)
ParseChars(t, i, acc) ==
    IF i > Len(t) THEN JsonError
    ELSE IF t[i] = Quote THEN [ok |-> TRUE, val |-> acc, pos |-> i + 1]
    ELSE IF t[i] = Backslash
         THEN IF i + 1 <= Len(t) /\ (t[i + 1] = Quote \/ t[i + 1] = Backslash)
              THEN ParseChars(t, i + 2, Append(acc, t[i + 1]))
              ELSE JsonError
    ELSE ParseChars(t, i + 1, Append(acc, t[i]))

\* the item of a JSON array that starts at j: a string, or null
ParseItem(t, j) ==
    IF j > Len(t) THEN JsonError
    ELSE IF t[j] = Quote THEN ParseChars(t, j + 1, <<>>)
    ELSE IF j + 3 <= Len(t) /\ SubSeq(t, j, j + 3) = JsonNull
         THEN [ok |-> TRUE, val |-> NoneStr, pos |-> j + 4]
    ELSE JsonError

\* the items of a JSON array after the opening bracket, an item starting at i
RECURSIVE ParseItems(_, _, _)
ParseItems(t, i, acc) ==
    LET j == SkipSpace(t, i)
    IN IF j > Len(t) THEN JsonError
       ELSE LET str == ParseItem(t, j)
            IN IF ~str.ok THEN JsonError
               ELSE LET k == SkipSpace(t, str.pos)
                    IN IF k > Len(t) THEN JsonError
                       ELSE IF t[k] = "]"
                            THEN [ok |-> TRUE, val |-> Append(acc, str.val),
                                  pos |-> k + 1]
                       ELSE IF t[k] = ","
                            THEN ParseItems(t, k + 1, Append(acc, str.val))
                       ELSE JsonError

json_loads(t) ==
    LET i == SkipSpace(t, 1)
    IN IF Strip(t) = JsonNull THEN [ok |-> TRUE, val |-> NoneList, pos |-> 0]
       ELSE IF i > Len(t) \/ t[i] # "[" THEN JsonError
       ELSE LET j == SkipSpace(t, i + 1)
                arr == IF j <= Len(t) /\ t[j] = "]"
                       THEN [ok |-> TRUE, val |-> <<>>, pos |-> j + 1]
                       ELSE ParseItems(t, i + 1, <<>>)
            IN IF arr.ok /\ SkipSpace(t, arr.pos) = Len(t) + 1
               THEN arr ELSE JsonError

(***************************************************************************)
(* UserVectorDB._prepare_metadata and UserVectorDB._parse_metadata.        *)
(***************************************************************************)
_prepare_metadata(session) ==
    LET goals == IF IsNone(session.preferences) THEN <<>>
                 ELSE Val(session.preferences).goals
        favorites == IF IsNone(session.preferences) THEN <<>>
                     ELSE Val(session.preferences).favorites
    IN [major |-> session.major,
        location |-> session.location,
        goals_json |-> json_dumps(goals),
        favorites_json |-> json_dumps(favorites),
        created_at |-> session.createdAt]

\* _parse_metadata whose except branches leave the list None
_parse_metadataLeavesNone(raw_metadata) ==
    LET goals == json_loads(raw_metadata.goals_json)
        favorites == json_loads(raw_metadata.favorites_json)
    IN [major |-> raw_metadata.major,
        location |-> raw_metadata.location,
        goals |-> IF goals.ok THEN goals.val ELSE NoneList,
        favorites |-> IF favorites.ok THEN favorites.val ELSE NoneList,
        created_at |-> raw_metadata.created_at]

_parse_metadata(raw_metadata) ==
    LET goals == json_loads(raw_metadata.goals_json)
        favorites == json_loads(raw_metadata.favorites_json)
    IN [major |-> raw_metadata.major,
        location |-> raw_metadata.location,
        goals |-> IF goals.ok THEN goals.val ELSE <<>>,
        favorites |-> IF favorites.ok THEN favorites.val ELSE <<>>,
        created_at |-> raw_metadata.created_at]

(***************************************************************************)
(* The sessions handed to add_user: an id and one of a few profile bodies  *)
(* that differ in every field, hold blank and padded values, list items    *)
(* with commas, quotes and backslashes, and whose texts lie at the         *)
(* distances 0, 1, 2 and more than 2 of each other.                        *)
(***************************************************************************)
Body(major, location, preferences, createdAt) ==
    [major |-> major, location |-> location,
     preferences |-> preferences, createdAt |-> createdAt]

Prefs(goals, favorites) == Some([goals |-> goals, favorites |-> favorites])

ProfileBodies ==
    { Body(<<"a">>, <<>>, PyNone, <<"1">>),
      Body(<<" ", "a", "b">>, <<" ">>, Prefs(<<>>, << <<" ">> >>), <<"2">>),
      Body(<<>>, <<>>,
           Prefs(<< <<"a", ",", Quote>>, <<" ">> >>, << <<"b">>, <<"b", " ">> >>),
           <<"1">>),
      Body(<<"b">>, <<"a", " ">>, Prefs(<< <<"b", Backslash>> >>, <<>>), <<>>) }

\* the name and the email of a session, which are not part of a body
Name == <<"N">>
Email == <<"E", "@">>

Session(id, body) ==
    [id |-> id, name |-> Name, email |-> Email,
     major |-> body.major, location |-> body.location,
     preferences |-> body.preferences, createdAt |-> body.createdAt]

Sessions == { Session(id, body) : id \in IdValues, body \in ProfileBodies }

(***************************************************************************)
(* State.                                                                  *)
(*   collection  the records of the chromadb collection 'graduate_users',  *)
(*               by id: PyNone, or Some(record) with the record's id,      *)
(*               embedding, metadata and document                          *)
(*   ret         the call that has just returned: its name, argument, the  *)
(*               exception it raised ("none" if it returned), the value    *)
(*               it returned, the raw answer of collection.query, and      *)
(*               whether it is an add_user that repeats the add_user       *)
(*               before it; or, with the name "idle", the caller between   *)
(*               two calls, which remembers in last the session of a call  *)
(*               of add_user that has just returned and in cleared that    *)
(*               the call that has just returned is a clear_all; for a     *)
(*               call, encoded tells whether it ran the encoder ("no",     *)
(*               "ok" or "failed") and cleared whether it is the first     *)
(*               call after a clear_all                                    *)
(*   before      the records of the collection when the last call started  *)
(*   written     by id, the session of the last add_user that stored the   *)
(*               id and was not followed by its delete_user or a clear_all *)
(*                                                                         *)
(* State of the calls made from several threads on one UserVectorDB:       *)
(*   thread      by thread, the call it makes and how far it has come: the *)
(*               statement it is at (pc), the method (op) and its argument *)
(*               (arg), its local variables (loc), the collection object   *)
(*               it has read from self.collection (h), the exception it    *)
(*               raised, the value it returned, the raw answer of          *)
(*               collection.query (results), the number of calls it made   *)
(*               on a collection (calls) and whether one of them was made  *)
(*               on a collection that had been deleted (stale)             *)
(*   store       the client's collection 'graduate_users': whether it      *)
(*               exists, the number of times it was created again (gen),   *)
(*               and which creation self.collection refers to (cur)        *)
(*   initial     the records of the collection before the threads' calls   *)
(*                                                                         *)
(* State of the application around the store:                              *)
(*   user_sessions  user_onboarding.user_sessions: by id, PyNone or the    *)
(*               session of the id                                         *)
(*   saved       by id, the preferences that the last add_user_preferences *)
(*               request for the id put into its session                   *)
(*   response    the HTTP request that has just been answered: its         *)
(*               endpoint (op), its arguments, the status and the detail   *)
(*               or the body of the answer, what find_similar_users        *)
(*               returned to it (matches), the exception raised inside the *)
(*               handler and the sessions when the request arrived; or,    *)
(*               with the endpoint "idle", the server between two requests *)
(*   users_list  app.users_list: by email, PyNone or the account           *)
(*   _db_instance  vector_db._db_instance: PyNone or the instance, which   *)
(*               is its number in the order of construction and the        *)
(*               persist_directory it was constructed with                 *)
(*   instances   the number of UserVectorDB instances get_db constructed   *)
(***************************************************************************)
VARIABLES collection, ret, before, written, thread, store, initial,
          user_sessions, saved, response, users_list, _db_instance, instances

vars == <<collection, ret, before, written, thread, store, initial,
          user_sessions, saved, response, users_list, _db_instance, instances>>

seqVars == <<ret, before, written>>
concVars == <<thread, store, initial>>
appVars == <<user_sessions, saved, response, users_list, _db_instance,
             instances>>

Stored(coll, id) == id \in UserIds /\ ~IsNone(coll[id])
StoredIds(coll) == { id \in UserIds : Stored(coll, id) }

EmptyCollection == [id \in UserIds |-> PyNone]

\* an upsert that merges: the metadata of a record that exists is kept
UpsertKeepMetadata(coll, id, embedding, metadata, document) ==
    [coll EXCEPT ![id] = Some([id |-> id, embedding |-> embedding,
                                metadata |-> IF IsNone(coll[id]) THEN metadata
                                             ELSE Val(coll[id]).metadata,
                                document |-> document])]

\* an upsert that merges: the document is appended to the one that exists
UpsertAppendDocument(coll, id, embedding, metadata, document) ==
    [coll EXCEPT ![id] = Some([id |-> id, embedding |-> embedding,
                                metadata |-> metadata,
                                document |-> IF IsNone(coll[id]) THEN document
                                             ELSE Val(coll[id]).document
                                                  \o document])]

\* collection.upsert(ids=[id], embeddings=[e], metadatas=[m], documents=[d])
Upsert(coll, id, embedding, metadata, document) ==
    [coll EXCEPT ![id] = Some([id |-> id, embedding |-> embedding,
                                metadata |-> metadata, document |-> document])]

\* a delete that removes nothing
DeleteNothing(coll, id) == coll

\* collection.delete(ids=[id]): no error for an id that is not stored
Delete(coll, id) ==
    IF id \in UserIds THEN [coll EXCEPT ![id] = PyNone] ELSE coll

\* collection.count()
Count(coll) == Cardinality(StoredIds(coll))

\* the distance of every stored record to a query embedding
Distances(coll, embedding) ==
    [id \in StoredIds(coll) |-> Distance(embedding, Val(coll[id]).embedding)]

\* the ids among ids whose records are nearest
Nearest(dist, ids) ==
    { id \in ids : \A other \in ids : dist[id] <= dist[other] }

\* the orders in which the collection may return the n records of ids that
\* are nearest (all of them if there are fewer than n): by ascending
\* distance, ties in any order
RECURSIVE Rankings(_, _, _)
Rankings(dist, ids, n) ==
    IF ids = {} \/ n = 0 THEN { <<>> }
    ELSE UNION { { <<id>> \o rest : rest \in Rankings(dist, ids \ {id}, n - 1) } :
                 id \in Nearest(dist, ids) }

\* collection.query(query_embeddings=[e], n_results=n,
\*                  include=["metadatas", "distances"]) for one ranking,
\* as entries [id, distance, metadata]
QueryResult(coll, dist, ord) ==
    [i \in 1..Len(ord) |->
        [id |-> ord[i],
         distance |-> dist[ord[i]],
         metadata |-> Val(coll[ord[i]]).metadata]]

\* the similarity without the max(0, ...)
SimilarityUnclamped(distance) == SimScale - distance

\* similarity = max(0, 1 - distance / 2), scaled by SimScale
Similarity(distance) == Max(0, SimScale - distance)

\* the loop without the test that skips the query user
RECURSIVE SimilarUsersKeepSelf(_, _, _)
SimilarUsersKeepSelf(results, user_id, include_metadata) ==
    IF results = <<>> THEN <<>>
    ELSE << [user_id |-> Head(results).id,
             similarity |-> Max(0, SimScale - Head(results).distance),
             metadata |-> IF include_metadata
                          THEN Some(_parse_metadata(Head(results).metadata))
                          ELSE PyNone] >>
         \o SimilarUsersKeepSelf(Tail(results), user_id, include_metadata)

\* the loop with insert(0, result) in place of append(result)
RECURSIVE SimilarUsersReversed(_, _, _)
SimilarUsersReversed(results, user_id, include_metadata) ==
    IF results = <<>> THEN <<>>
    ELSE IF Head(results).id = user_id
         THEN SimilarUsersReversed(Tail(results), user_id, include_metadata)
    ELSE SimilarUsersReversed(Tail(results), user_id, include_metadata)
         \o << [user_id |-> Head(results).id,
                 similarity |-> Max(0, SimScale - Head(results).distance),
                 metadata |-> IF include_metadata
                              THEN Some(_parse_metadata(Head(results).metadata))
                              ELSE PyNone] >>

\* the loop of find_similar_users over the entries of the query result
RECURSIVE SimilarUsers(_, _, _)
SimilarUsers(results, user_id, include_metadata) ==
    IF results = <<>> THEN <<>>
    ELSE IF Head(results).id = user_id
         THEN SimilarUsers(Tail(results), user_id, include_metadata)
    ELSE << [user_id |-> Head(results).id,
             similarity |-> Similarity(Head(results).distance),
             metadata |-> IF include_metadata
                          THEN Some(_parse_metadata(Head(results).metadata))
                          ELSE PyNone] >>
         \o SimilarUsers(Tail(results), user_id, include_metadata)

\* the result without the final truncation
FirstKAll(seq, k) == seq

\* similar_users[:top_k]
FirstK(seq, k) == SubSeq(seq, 1, Min(k, Len(seq)))

Call(op, arg, raised, value, results) ==
    [op |-> op, arg |-> arg, raised |-> raised, value |-> value,
     results |-> results,
     again |-> (op = "add_user" /\ ret.last = Some(arg)),
     last |-> PyNone, encoded |-> "no", cleared |-> ret.cleared]

Idle(last, cleared) ==
    [op |-> "idle", arg |-> <<>>, raised |-> "none", value |-> <<>>,
     results |-> <<>>, again |-> FALSE, last |-> last, encoded |-> "no",
     cleared |-> cleared]

Ready == ret.op = "idle"

Threads == {"t1", "t2"}

Thread(pc, op, arg) ==
    [pc |-> pc, op |-> op, arg |-> arg, loc |-> <<>>, h |-> 0,
     raised |-> "none", value |-> <<>>, results |-> <<>>, calls |-> 0,
     stale |-> FALSE]

Start == Thread("start", "none", <<>>)

\* the collection of a client that has cleared nothing yet
LiveStore == [exists |-> TRUE, gen |-> 0, cur |-> 0]

\* the emails of the register requests
RegisterEmails == { <<"a", "@">>, <<"b", "@">>, <<"c", "@">> }

\* the server between two requests
NoRequest ==
    [op |-> "idle", arg |-> <<>>, status |-> 0, detail |-> <<>>,
     body |-> <<>>, matches |-> <<>>, raised |-> "none", sessions |-> <<>>]

\* the module-level state of user_onboarding, app and vector_db when the
\* modules have been loaded: user_sessions = {}, users_list = {},
\* _db_instance = None
AppStart ==
    /\ user_sessions = [id \in UserIds |-> PyNone]
    /\ saved = [id \in UserIds |-> PyNone]
    /\ response = NoRequest
    /\ users_list = [email \in RegisterEmails |-> PyNone]
    /\ _db_instance = PyNone
    /\ instances = 0

Init ==
    /\ collection = EmptyCollection
    /\ ret = Idle(PyNone, FALSE)
    /\ before = EmptyCollection
    /\ written = [id \in UserIds |-> PyNone]
    /\ thread = [t \in Threads |-> Start]
    /\ store = LiveStore
    /\ initial = EmptyCollection
    /\ AppStart

\* the caller takes the outcome of the call and goes on to its next call
Return ==
    /\ ~Ready
    /\ UNCHANGED <<concVars, appVars>>
    /\ ret' = Idle(IF ret.op = "add_user" /\ ret.raised = "none"
                   THEN Some(ret.arg) ELSE PyNone,
                   ret.op = "clear_all" /\ ret.raised = "none")
    /\ before' = collection
    /\ UNCHANGED <<collection, written>>

(***************************************************************************)
(* UserVectorDB.add_user.  For a session with a usable id, the encoder     *)
(* returns the embedding or raises, and the collection upserts the record  *)
(* or, when a metadata value is None, may refuse it with a ValueError      *)
(* (chromadb versions differ in whether they accept a None value).         *)
(***************************************************************************)
HasNoneValue(metadata) ==
    metadata.major = NoneStr \/ metadata.location = NoneStr

AddOutcomes(session) ==
    {"stored", "encoder raises"}
      \cup (IF HasNoneValue(_prepare_metadata(session))
            THEN {"metadata refused"} ELSE {})

ZeroVector == [i \in 1..EmbDim |-> 0]

\* add_user that checks the id against None only, so that '' passes and
\* is written
AddUserChecksNone(session) ==
    /\ Ready
    /\ UNCHANGED <<concVars, appVars>>
    /\ before' = collection
    /\ IF session.id = NoId
       THEN /\ ret' = Call("add_user", session, "ValueError", <<>>, <<>>)
            /\ UNCHANGED <<collection, written>>
       ELSE \E outcome \in AddOutcomes(session) :
              IF outcome = "encoder raises"
              THEN /\ ret' = [Call("add_user", session, "EncoderError", <<>>,
                                   <<>>) EXCEPT !.encoded = "failed"]
                   /\ UNCHANGED <<collection, written>>
              ELSE IF outcome = "metadata refused"
              THEN /\ ret' = [Call("add_user", session, "ValueError", <<>>,
                                   <<>>) EXCEPT !.encoded = "ok"]
                   /\ UNCHANGED <<collection, written>>
              ELSE /\ collection' =
                        IF session.id = EmptyId THEN collection
                        ELSE Upsert(collection, session.id,
                                    get_user_embedding(session),
                                    _prepare_metadata(session),
                                    create_user_text(session))
                   /\ ret' = [Call("add_user", session, "none", <<>>, <<>>)
                                EXCEPT !.encoded = "ok"]
                   /\ written' =
                        IF session.id = EmptyId THEN written
                        ELSE [written EXCEPT ![session.id] = Some(session)]

\* add_user that catches the encoder's exception and stores a zero vector
AddUserZeroVector(session) ==
    /\ Ready
    /\ UNCHANGED <<concVars, appVars>>
    /\ before' = collection
    /\ IF session.id = NoId \/ session.id = EmptyId
       THEN /\ ret' = Call("add_user", session, "ValueError", <<>>, <<>>)
            /\ UNCHANGED <<collection, written>>
       ELSE \E outcome \in AddOutcomes(session) :
              IF outcome = "metadata refused"
              THEN /\ ret' = [Call("add_user", session, "ValueError", <<>>,
                                   <<>>) EXCEPT !.encoded = "ok"]
                   /\ UNCHANGED <<collection, written>>
              ELSE /\ collection' =
                        Upsert(collection, session.id,
                               IF outcome = "encoder raises" THEN ZeroVector
                               ELSE get_user_embedding(session),
                               _prepare_metadata(session),
                               create_user_text(session))
                   /\ ret' = [Call("add_user", session, "none", <<>>, <<>>)
                                EXCEPT !.encoded =
                                   IF outcome = "encoder raises" THEN "failed"
                                   ELSE "ok"]
                   /\ written' = [written EXCEPT ![session.id] = Some(session)]

AddUser(session) ==
    /\ Ready
    /\ UNCHANGED <<concVars, appVars>>
    /\ before' = collection
    /\ IF session.id = NoId \/ session.id = EmptyId
       THEN /\ ret' = Call("add_user", session, "ValueError", <<>>, <<>>)
            /\ UNCHANGED <<collection, written>>
       ELSE \E outcome \in AddOutcomes(session) :
              IF outcome = "encoder raises"
              THEN /\ ret' = [Call("add_user", session, "EncoderError", <<>>,
                                   <<>>) EXCEPT !.encoded = "failed"]
                   /\ UNCHANGED <<collection, written>>
              ELSE IF outcome = "metadata refused"
              THEN /\ ret' = [Call("add_user", session, "ValueError", <<>>,
                                   <<>>) EXCEPT !.encoded = "ok"]
                   /\ UNCHANGED <<collection, written>>
              ELSE LET embedding == get_user_embedding(session)
                       text == create_user_text(session)
                       metadata == _prepare_metadata(session)
                   IN /\ collection' = Upsert(collection, session.id,
                                              embedding, metadata, text)
                      /\ ret' = [Call("add_user", session, "none", <<>>, <<>>)
                                   EXCEPT !.encoded = "ok"]
                      /\ written' =
                            [written EXCEPT ![session.id] = Some(session)]

\* find_similar_users that answers an unknown user with the empty list
FindSimilarUsersEmptyForMissing(user_id, top_k, include_metadata) ==
    LET arg == <<user_id, top_k, include_metadata>>
    IN /\ Ready
       /\ UNCHANGED <<concVars, appVars>>
       /\ IF ~Stored(collection, user_id)
          THEN /\ ret' = Call("find_similar_users", arg, "none", <<>>, <<>>)
               /\ before' = collection
               /\ UNCHANGED <<collection, written>>
          ELSE LET dist == Distances(collection,
                                     Val(collection[user_id]).embedding)
               IN \E ord \in Rankings(dist, StoredIds(collection), top_k + 1) :
                    LET results == QueryResult(collection, dist, ord)
                        similar_users == SimilarUsers(results, user_id,
                                                      include_metadata)
                    IN /\ ret' = Call("find_similar_users", arg, "none",
                                      FirstK(similar_users, top_k), results)
                       /\ before' = collection
                       /\ UNCHANGED <<collection, written>>

(***************************************************************************)
(* UserVectorDB.find_similar_users                                         *)
(***************************************************************************)
FindSimilarUsers(user_id, top_k, include_metadata) ==
    LET arg == <<user_id, top_k, include_metadata>>
    IN /\ Ready
       /\ UNCHANGED <<concVars, appVars>>
       /\ IF ~Stored(collection, user_id)
          THEN /\ ret' = Call("find_similar_users", arg, "ValueError", <<>>,
                               <<>>)
               /\ before' = collection
               /\ UNCHANGED <<collection, written>>
          ELSE LET dist == Distances(collection,
                                     Val(collection[user_id]).embedding)
               IN \E ord \in Rankings(dist, StoredIds(collection), top_k + 1) :
                    LET results == QueryResult(collection, dist, ord)
                        similar_users == SimilarUsers(results, user_id,
                                                      include_metadata)
                    IN /\ ret' = Call("find_similar_users", arg, "none",
                                      FirstK(similar_users, top_k), results)
                       /\ before' = collection
                       /\ UNCHANGED <<collection, written>>

(***************************************************************************)
(* UserVectorDB.get_user                                                   *)
(***************************************************************************)
GetUserValue(coll, user_id) ==
    IF ~Stored(coll, user_id) THEN PyNone
    ELSE Some([id |-> Val(coll[user_id]).id,
               text |-> Val(coll[user_id]).document,
               metadata |-> _parse_metadata(Val(coll[user_id]).metadata),
               embedding |-> Val(coll[user_id]).embedding])

\* get_user without the test for an empty answer: result['ids'][0] fails
GetUserRaises(user_id) ==
    /\ Ready
    /\ UNCHANGED <<concVars, appVars>>
    /\ before' = collection
    /\ ret' = IF Stored(collection, user_id)
              THEN Call("get_user", user_id, "none",
                        GetUserValue(collection, user_id), <<>>)
              ELSE Call("get_user", user_id, "IndexError", <<>>, <<>>)
    /\ UNCHANGED <<collection, written>>

GetUser(user_id) ==
    /\ Ready
    /\ UNCHANGED <<concVars, appVars>>
    /\ before' = collection
    /\ ret' = Call("get_user", user_id, "none",
                   GetUserValue(collection, user_id), <<>>)
    /\ UNCHANGED <<collection, written>>

(***************************************************************************)
(* UserVectorDB.delete_user: collection.delete does not raise, so the      *)
(* except branch is not taken and the method returns True.                 *)
(***************************************************************************)
DeleteUser(user_id) ==
    /\ Ready
    /\ UNCHANGED <<concVars, appVars>>
    /\ before' = collection
    /\ collection' = Delete(collection, user_id)
    /\ ret' = Call("delete_user", user_id, "none", TRUE, <<>>)
    /\ written' = [written EXCEPT ![user_id] = PyNone]

(***************************************************************************)
(* UserVectorDB.count_users                                                *)
(***************************************************************************)
CountUsers ==
    /\ Ready
    /\ UNCHANGED <<concVars, appVars>>
    /\ before' = collection
    /\ ret' = Call("count_users", <<>>, "none", Count(collection), <<>>)
    /\ UNCHANGED <<collection, written>>

(***************************************************************************)
(* UserVectorDB.clear_all: the collection is deleted and created again.    *)
(***************************************************************************)
\* clear_all without delete_collection: get_or_create_collection returns
\* the collection that exists
ClearAllKeepsRecords ==
    /\ Ready
    /\ UNCHANGED <<concVars, appVars>>
    /\ before' = collection
    /\ ret' = Call("clear_all", <<>>, "none", <<>>, <<>>)
    /\ UNCHANGED <<collection, written>>

ClearAll ==
    /\ Ready
    /\ UNCHANGED <<concVars, appVars>>
    /\ before' = collection
    /\ collection' = EmptyCollection
    /\ ret' = Call("clear_all", <<>>, "none", <<>>, <<>>)
    /\ written' = [id \in UserIds |-> PyNone]

IncludeMetadata == BOOLEAN

Next ==
    \/ \E session \in Sessions : AddUser(session)
    \/ \E user_id \in UserIds, top_k \in TopKs,
          include_metadata \in IncludeMetadata :
           FindSimilarUsers(user_id, top_k, include_metadata)
    \/ \E user_id \in UserIds : GetUser(user_id)
    \/ \E user_id \in UserIds : DeleteUser(user_id)
    \/ CountUsers
    \/ ClearAll
    \/ Return

Spec == Init /\ [][Next]_vars

(***************************************************************************)
(* The methods of UserVectorDB called from several threads, each thread    *)
(* making one call.  A step is one statement's work on the shared state:   *)
(* reading self.collection, one call on the collection object read, one    *)
(* call on the client.  A call on a collection object whose collection has *)
(* been deleted has two outcomes, depending on the chromadb version: it    *)
(* raises, or it acts on the deleted collection, where a write is lost and *)
(* a read finds nothing.                                                   *)
(***************************************************************************)
ConcBodies == { body \in ProfileBodies : body.createdAt = <<"1">> }

ConcSessions == { Session(id, body) : id \in IdValues, body \in ConcBodies }

\* the collection after add_user(session) has written its record
Added(coll, session) ==
    Upsert(coll, session.id, get_user_embedding(session),
           _prepare_metadata(session), create_user_text(session))

\* the collections the threads may find: empty, or with records that
\* add_user wrote for the first ids
InitialCollections ==
    LET first == CHOOSE body \in ConcBodies : body.major # <<>>
        one == Added(EmptyCollection, Session(1, first))
    IN { EmptyCollection, one, Added(one, Session(2, first)) }

InitConc ==
    /\ collection \in InitialCollections
    /\ initial = collection
    /\ thread = [t \in Threads |-> Start]
    /\ store = LiveStore
    /\ ret = Idle(PyNone, FALSE)
    /\ before = EmptyCollection
    /\ written = [id \in UserIds |-> PyNone]
    /\ AppStart

\* the collection object h refers to the collection that exists
Valid(h) == store.exists /\ h = store.gen

CallOutcomes(h) == IF Valid(h) THEN {"ok"} ELSE {"raises", "orphan"}

\* thread t ends its call
Finish(t, raised, value, results, stale) ==
    [thread[t] EXCEPT !.pc = "done", !.raised = raised, !.value = value,
                      !.results = results, !.calls = @ + 1,
                      !.stale = @ \/ stale]

\* thread t reads self.collection for its next call on it
LoadCollection(t, to) ==
    [thread[t] EXCEPT !.pc = to, !.h = store.cur]

\* add_user up to the upsert: validation, embedding, text and metadata
add_user_prepare(t, session) ==
    /\ thread[t].pc = "start"
    /\ IF session.id = NoId \/ session.id = EmptyId
       THEN thread' = [thread EXCEPT ![t] =
                          [Thread("done", "add_user", session)
                             EXCEPT !.raised = "ValueError"]]
       ELSE \E outcome \in {"encoded", "encoder raises"} :
              thread' = [thread EXCEPT ![t] =
                 IF outcome = "encoder raises"
                 THEN [Thread("done", "add_user", session)
                         EXCEPT !.raised = "EncoderError"]
                 ELSE [Thread("add_user:load", "add_user", session)
                         EXCEPT !.loc =
                            [embedding |-> get_user_embedding(session),
                             text |-> create_user_text(session),
                             metadata |-> _prepare_metadata(session)]]]
    /\ UNCHANGED <<collection, store, initial, seqVars, appVars>>

add_user_load(t) ==
    /\ thread[t].pc = "add_user:load"
    /\ thread' = [thread EXCEPT ![t] = LoadCollection(t, "add_user:upsert")]
    /\ UNCHANGED <<collection, store, initial, seqVars, appVars>>

\* an upsert made as two calls: the embedding and the document first, the
\* metadata in a second call
add_user_upsertInTwoCalls(t) ==
    /\ thread[t].pc = "add_user:upsert"
    /\ LET id == thread[t].arg.id
           loc == thread[t].loc
       IN \E outcome \in CallOutcomes(thread[t].h) :
            IF outcome = "raises"
            THEN /\ thread' = [thread EXCEPT ![t] =
                                  Finish(t, "CollectionError", <<>>, <<>>, TRUE)]
                 /\ UNCHANGED collection
            ELSE IF outcome = "orphan"
            THEN /\ thread' = [thread EXCEPT ![t] =
                                  Finish(t, "none", <<>>, <<>>, TRUE)]
                 /\ UNCHANGED collection
            ELSE IF thread[t].calls = 0
            THEN /\ collection' =
                      Upsert(collection, id, loc.embedding,
                             IF Stored(collection, id)
                             THEN Val(collection[id]).metadata
                             ELSE _prepare_metadata(Session(id,
                                      Body(<<>>, <<>>, PyNone, <<>>))),
                             loc.text)
                 /\ thread' = [thread EXCEPT ![t].calls = 1]
            ELSE /\ collection' =
                      IF Stored(collection, id)
                      THEN Upsert(collection, id,
                                  Val(collection[id]).embedding,
                                  loc.metadata, Val(collection[id]).document)
                      ELSE collection
                 /\ thread' = [thread EXCEPT ![t] =
                                  Finish(t, "none", <<>>, <<>>, FALSE)]
    /\ UNCHANGED <<store, initial, seqVars, appVars>>

\* self.collection.upsert(ids, embeddings, metadatas, documents)
add_user_upsert(t) ==
    /\ thread[t].pc = "add_user:upsert"
    /\ LET id == thread[t].arg.id
           loc == thread[t].loc
           refused == IF HasNoneValue(loc.metadata)
                      THEN {"metadata refused"} ELSE {}
       IN \E outcome \in CallOutcomes(thread[t].h) \cup refused :
            IF outcome = "raises"
            THEN /\ thread' = [thread EXCEPT ![t] =
                                  Finish(t, "CollectionError", <<>>, <<>>, TRUE)]
                 /\ UNCHANGED collection
            ELSE IF outcome = "orphan"
            THEN /\ thread' = [thread EXCEPT ![t] =
                                  Finish(t, "none", <<>>, <<>>, TRUE)]
                 /\ UNCHANGED collection
            ELSE IF outcome = "metadata refused"
            THEN /\ thread' = [thread EXCEPT ![t] =
                                  Finish(t, "ValueError", <<>>, <<>>, FALSE)]
                 /\ UNCHANGED collection
            ELSE /\ collection' = Upsert(collection, id, loc.embedding,
                                         loc.metadata, loc.text)
                 /\ thread' = [thread EXCEPT ![t] =
                                  Finish(t, "none", <<>>, <<>>, FALSE)]
    /\ UNCHANGED <<store, initial, seqVars, appVars>>

find_similar_users_load(t, user_id, top_k, include_metadata) ==
    /\ thread[t].pc = "start"
    /\ thread' = [thread EXCEPT ![t] =
                     [Thread("find_similar_users:get", "find_similar_users",
                             <<user_id, top_k, include_metadata>>)
                        EXCEPT !.h = store.cur]]
    /\ UNCHANGED <<collection, store, initial, seqVars, appVars>>

\* self.collection.get(ids=[user_id], include=["embeddings"]) and the test
\* for an answer without embeddings
find_similar_users_get(t) ==
    /\ thread[t].pc = "find_similar_users:get"
    /\ LET user_id == thread[t].arg[1]
       IN \E outcome \in CallOutcomes(thread[t].h) :
            thread' = [thread EXCEPT ![t] =
               IF outcome = "raises"
               THEN Finish(t, "CollectionError", <<>>, <<>>, TRUE)
               ELSE IF outcome = "orphan"
               THEN Finish(t, "ValueError", <<>>, <<>>, TRUE)
               ELSE IF ~Stored(collection, user_id)
               THEN Finish(t, "ValueError", <<>>, <<>>, FALSE)
               ELSE [thread[t] EXCEPT
                        !.pc = "find_similar_users:load",
                        !.loc = Val(collection[user_id]).embedding,
                        !.calls = @ + 1]]
    /\ UNCHANGED <<collection, store, initial, seqVars, appVars>>

find_similar_users_reload(t) ==
    /\ thread[t].pc = "find_similar_users:load"
    /\ thread' = [thread EXCEPT ![t] =
                     LoadCollection(t, "find_similar_users:query")]
    /\ UNCHANGED <<collection, store, initial, seqVars, appVars>>

\* self.collection.query(...) and the loop over its answer
find_similar_users_query(t) ==
    /\ thread[t].pc = "find_similar_users:query"
    /\ LET user_id == thread[t].arg[1]
           top_k == thread[t].arg[2]
           include_metadata == thread[t].arg[3]
           dist == Distances(collection, thread[t].loc)
       IN \E outcome \in CallOutcomes(thread[t].h) :
            IF outcome = "raises"
            THEN thread' = [thread EXCEPT ![t] =
                               Finish(t, "CollectionError", <<>>, <<>>, TRUE)]
            ELSE IF outcome = "orphan"
            THEN thread' = [thread EXCEPT ![t] =
                               Finish(t, "none", <<>>, <<>>, TRUE)]
            ELSE \E ord \in Rankings(dist, StoredIds(collection), top_k + 1) :
                   LET results == QueryResult(collection, dist, ord)
                       similar_users == SimilarUsers(results, user_id,
                                                     include_metadata)
                   IN thread' = [thread EXCEPT ![t] =
                                    Finish(t, "none",
                                           FirstK(similar_users, top_k),
                                           results, FALSE)]
    /\ UNCHANGED <<collection, store, initial, seqVars, appVars>>

get_user_load(t, user_id) ==
    /\ thread[t].pc = "start"
    /\ thread' = [thread EXCEPT ![t] =
                     [Thread("get_user:get", "get_user", user_id)
                        EXCEPT !.h = store.cur]]
    /\ UNCHANGED <<collection, store, initial, seqVars, appVars>>

\* self.collection.get(ids=[user_id], include=[...]) and the return
get_user_get(t) ==
    /\ thread[t].pc = "get_user:get"
    /\ \E outcome \in CallOutcomes(thread[t].h) :
         thread' = [thread EXCEPT ![t] =
            IF outcome = "raises"
            THEN Finish(t, "CollectionError", <<>>, <<>>, TRUE)
            ELSE IF outcome = "orphan"
            THEN Finish(t, "none", PyNone, <<>>, TRUE)
            ELSE Finish(t, "none", GetUserValue(collection, thread[t].arg),
                        <<>>, FALSE)]
    /\ UNCHANGED <<collection, store, initial, seqVars, appVars>>

delete_user_load(t, user_id) ==
    /\ thread[t].pc = "start"
    /\ thread' = [thread EXCEPT ![t] =
                     [Thread("delete_user:delete", "delete_user", user_id)
                        EXCEPT !.h = store.cur]]
    /\ UNCHANGED <<collection, store, initial, seqVars, appVars>>

\* self.collection.delete(ids=[user_id]) inside try / except Exception
delete_user_delete(t) ==
    /\ thread[t].pc = "delete_user:delete"
    /\ \E outcome \in CallOutcomes(thread[t].h) :
         IF outcome = "raises"
         THEN /\ thread' = [thread EXCEPT ![t] =
                               Finish(t, "none", FALSE, <<>>, TRUE)]
              /\ UNCHANGED collection
         ELSE IF outcome = "orphan"
         THEN /\ thread' = [thread EXCEPT ![t] =
                               Finish(t, "none", TRUE, <<>>, TRUE)]
              /\ UNCHANGED collection
         ELSE /\ collection' = Delete(collection, thread[t].arg)
              /\ thread' = [thread EXCEPT ![t] =
                               Finish(t, "none", TRUE, <<>>, FALSE)]
    /\ UNCHANGED <<store, initial, seqVars, appVars>>

count_users_load(t) ==
    /\ thread[t].pc = "start"
    /\ thread' = [thread EXCEPT ![t] =
                     [Thread("count_users:count", "count_users", <<>>)
                        EXCEPT !.h = store.cur]]
    /\ UNCHANGED <<collection, store, initial, seqVars, appVars>>

\* self.collection.count()
count_users_count(t) ==
    /\ thread[t].pc = "count_users:count"
    /\ \E outcome \in CallOutcomes(thread[t].h) :
         thread' = [thread EXCEPT ![t] =
            IF outcome = "raises"
            THEN Finish(t, "CollectionError", <<>>, <<>>, TRUE)
            ELSE IF outcome = "orphan"
            THEN Finish(t, "none", 0, <<>>, TRUE)
            ELSE Finish(t, "none", Count(collection), <<>>, FALSE)]
    /\ UNCHANGED <<collection, store, initial, seqVars, appVars>>

\* self.client.delete_collection(name="graduate_users"), which raises when
\* no collection of that name exists
clear_all_delete(t) ==
    /\ thread[t].pc = "start"
    /\ IF store.exists
       THEN /\ collection' = EmptyCollection
            /\ store' = [store EXCEPT !.exists = FALSE]
            /\ thread' = [thread EXCEPT ![t] =
                             Thread("clear_all:create", "clear_all", <<>>)]
       ELSE /\ thread' = [thread EXCEPT ![t] =
                             [Thread("done", "clear_all", <<>>)
                                EXCEPT !.raised = "CollectionError"]]
            /\ UNCHANGED <<collection, store>>
    /\ UNCHANGED <<initial, seqVars, appVars>>

\* self.collection = self.client.get_or_create_collection(...)
clear_all_create(t) ==
    /\ thread[t].pc = "clear_all:create"
    /\ store' = IF store.exists THEN [store EXCEPT !.cur = store.gen]
                ELSE [exists |-> TRUE, gen |-> store.gen + 1,
                      cur |-> store.gen + 1]
    /\ thread' = [thread EXCEPT ![t].pc = "done"]
    /\ UNCHANGED <<collection, initial, seqVars, appVars>>

NextConc ==
    \E t \in Threads :
       \/ \E session \in ConcSessions : add_user_prepare(t, session)
       \/ add_user_load(t)
       \/ add_user_upsert(t)
       \/ \E user_id \in UserIds, top_k \in TopKs,
             include_metadata \in IncludeMetadata :
              find_similar_users_load(t, user_id, top_k, include_metadata)
       \/ find_similar_users_get(t)
       \/ find_similar_users_reload(t)
       \/ find_similar_users_query(t)
       \/ \E user_id \in UserIds : get_user_load(t, user_id)
       \/ get_user_get(t)
       \/ \E user_id \in UserIds : delete_user_load(t, user_id)
       \/ delete_user_delete(t)
       \/ count_users_load(t)
       \/ count_users_count(t)
       \/ clear_all_delete(t)
       \/ clear_all_create(t)

SpecConc == InitConc /\ [][NextConc]_vars

(***************************************************************************)
(* The metadata of a session written and read back: _prepare_metadata on   *)
(* a session whose goals and favorites are lists of strings with commas,   *)
(* quotes, backslashes, brackets and blanks, then _parse_metadata on its   *)
(* result.  The idle caller holds in arg the session it is about to pass.  *)
(***************************************************************************)
ListItems ==
    { <<>>, <<"a">>, <<",">>, <<Quote>>, <<Backslash>>, <<" ", "a">>,
      <<"a", ",", " ", "b">>, <<Quote, ",", " ", Quote>>,
      <<Backslash, Quote>>, <<"[", "]">>, <<"n", "u", "l", "l">> }

\* the lists of at most n items
RECURSIVE ListsUpTo(_)
ListsUpTo(n) ==
    IF n = 0 THEN { <<>> }
    ELSE ListsUpTo(n - 1)
           \cup { Append(list, item) : list \in ListsUpTo(n - 1),
                                      item \in ListItems }

MetadataSessions ==
    { Session(1, Body(<<"a">>, <<>>, Prefs(goals, favorites), <<"1">>)) :
        goals \in ListsUpTo(MaxItems), favorites \in ListsUpTo(1) }

InitMetadata ==
    /\ ret \in { [Idle(PyNone, FALSE) EXCEPT !.arg = session] :
                   session \in MetadataSessions }
    /\ collection = EmptyCollection
    /\ before = EmptyCollection
    /\ written = [id \in UserIds |-> PyNone]
    /\ thread = [t \in Threads |-> Start]
    /\ store = LiveStore
    /\ initial = EmptyCollection
    /\ AppStart

\* metadata = self._prepare_metadata(session)
PrepareMetadata ==
    /\ Ready
    /\ ret' = Call("_prepare_metadata", ret.arg, "none",
                   _prepare_metadata(ret.arg), <<>>)
    /\ UNCHANGED <<collection, before, written, concVars, appVars>>

\* self._parse_metadata(raw_metadata) on the metadata prepared
ParseMetadata ==
    /\ ret.op = "_prepare_metadata"
    /\ ret' = Call("_parse_metadata", ret.arg, "none",
                   _parse_metadata(ret.value), ret.value)
    /\ UNCHANGED <<collection, before, written, concVars, appVars>>

NextMetadata == PrepareMetadata \/ ParseMetadata

SpecMetadata == InitMetadata /\ [][NextMetadata]_vars

(***************************************************************************)
(* A store opened on a persisted collection, to which the sessions of the  *)
(* onboarding are added and which is read back.                            *)
(*   - The sessions are those that user_onboarding builds from a request   *)
(*     (create_user_session on the dump of a UserCreate, in which a field  *)
(*     the request omits is None, then update_user_preferences), and       *)
(*     sessions handed to add_user directly whose preferences are None or  *)
(*     hold None for goals or favorites.                                   *)
(*   - The persisted collection holds records that add_user wrote; the     *)
(*     goals_json or favorites_json of some of them has since been damaged *)
(*     into a text that is not JSON.                                       *)
(***************************************************************************)
\* UserCreate(...).model_dump(): an omitted optional field is None
UserCreate(name, email, major, location) ==
    [name |-> name, email |-> email, major |-> major, location |-> location]

\* user_onboarding.create_user_session, with the id and the time it draws
create_user_session(user_data, user_id, created_at) ==
    [id |-> user_id, name |-> user_data.name, email |-> user_data.email,
     major |-> user_data.major, location |-> user_data.location,
     preferences |-> PyNone, createdAt |-> created_at]

\* user_onboarding.update_user_preferences
update_user_preferences(session, preferences) ==
    [session EXCEPT !.preferences =
        Some([favorites |-> preferences.favorites,
              goals |-> preferences.goals])]

Names == { Name, <<"N", "N">> }
Emails == { Email, <<"@", "E">> }

Requests ==
    { UserCreate(name, email, major, location) :
        name \in Names, email \in Emails,
        major \in { NoneStr, <<"a">> }, location \in { NoneStr, <<"b">> } }

\* UserPreferences(...).model_dump(): lists, empty when omitted
PreferenceRequests ==
    { [favorites |-> <<>>, goals |-> <<>>],
      [favorites |-> << <<"b">> >>, goals |-> << <<"a">>, <<"a", "b">> >>] }

OnboardedSessions ==
    { update_user_preferences(create_user_session(user_data, 1, <<"1">>),
                              preferences) :
        user_data \in Requests, preferences \in PreferenceRequests }

DirectSessions ==
    { Session(1, Body(<<"a">>, <<>>, preferences, <<"2">>)) :
        preferences \in { PyNone, Prefs(NoneList, << <<"b">> >>),
                          Prefs(<< <<"a">> >>, NoneList) } }

StoreSessions == OnboardedSessions \cup DirectSessions

\* texts that json.loads rejects
CorruptTexts ==
    { <<>>, <<"[", Quote, "a">>,
      <<"[", Quote, "a", Quote, ",", " ", "]">>,
      <<"[", Quote, Backslash, "a", Quote, "]">> }

\* the record of id with its goals_json / favorites_json replaced
Damaged(coll, id, goals_json, favorites_json) ==
    [coll EXCEPT ![id] =
        Some([Val(coll[id]) EXCEPT !.metadata.goals_json = goals_json,
                                   !.metadata.favorites_json = favorites_json])]

\* the sessions whose records the persisted collection holds
PersistedSessions ==
    { Session(2, CHOOSE body \in ProfileBodies : body.major = <<>>),
      Session(3, CHOOSE body \in ProfileBodies : body.major = <<"b">>) }

PersistedWritten ==
    [id \in UserIds |->
        IF \E session \in PersistedSessions : session.id = id
        THEN Some(CHOOSE session \in PersistedSessions : session.id = id)
        ELSE PyNone]

PersistedIntact ==
    [id \in UserIds |->
        IF IsNone(PersistedWritten[id]) THEN PyNone
        ELSE Added(EmptyCollection, Val(PersistedWritten[id]))[id]]

PersistedCollections ==
    { PersistedIntact }
      \cup { Damaged(PersistedIntact, 2, text,
                     Val(PersistedIntact[2]).metadata.favorites_json) :
               text \in CorruptTexts }
      \cup { Damaged(Damaged(PersistedIntact, 3, text,
                             Val(PersistedIntact[3]).metadata.favorites_json),
                     2, Val(PersistedIntact[2]).metadata.goals_json, text) :
               text \in CorruptTexts }

InitStore ==
    /\ collection \in PersistedCollections
    /\ before = collection
    /\ written = PersistedWritten
    /\ ret = Idle(PyNone, FALSE)
    /\ thread = [t \in Threads |-> Start]
    /\ store = LiveStore
    /\ initial = collection
    /\ AppStart

NextStore ==
    \/ \E session \in StoreSessions : AddUser(session)
    \/ \E user_id \in UserIds, top_k \in TopKs,
          include_metadata \in IncludeMetadata :
           FindSimilarUsers(user_id, top_k, include_metadata)
    \/ \E user_id \in UserIds : GetUser(user_id)
    \/ Return

SpecStore == InitStore /\ [][NextStore]_vars

(***************************************************************************)
(* The onboarding and matching endpoints of app.py, which are coroutines   *)
(* without an await: the server runs each handler to its end before the    *)
(* next one.  The store the application opens holds the records of users   *)
(* that were loaded into it beforehand; uuid.uuid4 draws an id that no     *)
(* session and no record has.                                              *)
(***************************************************************************)
\* the ids uuid.uuid4 draws
Uuids == {1, 2}

\* SimilarUser keeps goals[:3]
TopGoals == 3

Unknown == <<"U", "n", "k", "n", "o", "w", "n">>
NotSpecified == <<"N", "o", "t", " ", "s", "p", "e", "c", "i", "f", "i", "e", "d">>

\* the detail of the 404 of get_similar_users
NotFoundDetail == "User not found. Make sure preferences have been added first."

\* UserCreate(...).model_dump() of the requests: a name that may be empty
\* and a major that may be omitted
ApiRequests ==
    { UserCreate(name, Email, major, <<"b">>) :
        name \in { Name, <<>> }, major \in { NoneStr, <<"a">> } }

\* UserPreferences(...).model_dump() of the requests: no goals, or more
\* goals than a SimilarUser keeps
ApiPreferences ==
    { [favorites |-> <<>>, goals |-> <<>>],
      [favorites |-> << <<"b">> >>,
       goals |-> << <<"a">>, <<"a", "b">>, <<"b">>, <<"a", "a">> >>] }

\* the sessions of the users loaded beforehand: one with a goal, one whose
\* goals hold None next to a string
LoadedSessions ==
    { Session(3, Body(<<"b">>, <<"a", " ">>, Prefs(goals, <<>>), <<>>)) :
        goals \in { << <<"b">> >>, << NoneStr, <<"a">> >> } }

InitApi ==
    /\ \E loaded \in SUBSET LoadedSessions :
          /\ Cardinality(loaded) <= 1
          /\ collection = [id \in UserIds |->
                IF \E session \in loaded : session.id = id
                THEN Added(EmptyCollection,
                           CHOOSE session \in loaded : session.id = id)[id]
                ELSE PyNone]
          /\ written = [id \in UserIds |->
                IF \E session \in loaded : session.id = id
                THEN Some(CHOOSE session \in loaded : session.id = id)
                ELSE PyNone]
    /\ before = collection
    /\ initial = collection
    /\ ret = Idle(PyNone, FALSE)
    /\ thread = [t \in Threads |-> Start]
    /\ store = LiveStore
    /\ AppStart

\* the answer of a handler
Answer(op, arg, status, detail, body, matches, raised) ==
    [op |-> op, arg |-> arg, status |-> status, detail |-> detail,
     body |-> body, matches |-> matches, raised |-> raised,
     sessions |-> user_sessions]

Listening == response.op = "idle"

\* the client has its answer and the server waits for the next request
Respond ==
    /\ ~Listening
    /\ response' = NoRequest
    /\ before' = collection
    /\ UNCHANGED <<collection, ret, written, user_sessions, saved,
                   users_list, _db_instance, instances, concVars>>

\* the ids uuid.uuid4 may return: those no session and no record has
FreshIds ==
    { id \in Uuids : IsNone(user_sessions[id]) /\ ~Stored(collection, id) }

\* POST /api/users that also hands the new session to vector_db.add_user
create_userAddsUser(user_data) ==
    /\ Listening
    /\ before' = collection
    /\ UNCHANGED <<ret, saved, users_list, _db_instance, instances, concVars>>
    /\ IF user_data.name = <<>> \/ user_data.email = <<>>
       THEN /\ response' = Answer("create_user", user_data, 500,
                                  "Failed to create user", PyNone, <<>>,
                                  "ValueError")
            /\ UNCHANGED <<collection, written, user_sessions>>
       ELSE \E user_id \in FreshIds :
              LET user_session ==
                    create_user_session(user_data, user_id, <<"1">>)
              IN /\ user_sessions' =
                       [user_sessions EXCEPT ![user_id] = Some(user_session)]
                 /\ collection' = Added(collection, user_session)
                 /\ written' = [written EXCEPT ![user_id] = Some(user_session)]
                 /\ response' = Answer("create_user", user_data, 201, <<>>,
                                       Some(user_session), <<>>, "none")

\* POST /api/users: create_user_session(user_data.model_dump()), or 500
\* when it raises
create_user(user_data) ==
    /\ Listening
    /\ before' = collection
    /\ UNCHANGED <<ret, saved, users_list, _db_instance, instances, concVars>>
    /\ IF user_data.name = <<>> \/ user_data.email = <<>>
       THEN /\ response' = Answer("create_user", user_data, 500,
                                  "Failed to create user", PyNone, <<>>,
                                  "ValueError")
            /\ UNCHANGED <<collection, written, user_sessions>>
       ELSE \E user_id \in FreshIds :
              LET user_session ==
                    create_user_session(user_data, user_id, <<"1">>)
              IN /\ user_sessions' =
                       [user_sessions EXCEPT ![user_id] = Some(user_session)]
                 /\ response' = Answer("create_user", user_data, 201, <<>>,
                                       Some(user_session), <<>>, "none")
                 /\ UNCHANGED <<collection, written>>

\* update_user_preferences that makes a session for an id that has none
UpdateUserPreferencesSetDefault(sessions, user_id, preferences) ==
    LET session ==
          update_user_preferences(
             IF IsNone(sessions[user_id])
             THEN create_user_session(UserCreate(<<>>, <<>>, NoneStr, NoneStr),
                                      user_id, <<>>)
             ELSE Val(sessions[user_id]),
             preferences)
    IN [sessions |-> [sessions EXCEPT ![user_id] = Some(session)],
        session |-> Some(session)]

\* user_onboarding.update_user_preferences(user_id, preferences) on the
\* sessions: the sessions it leaves and what it returns, None for an id
\* without a session
UpdateUserPreferences(sessions, user_id, preferences) ==
    IF IsNone(sessions[user_id])
    THEN [sessions |-> sessions, session |-> PyNone]
    ELSE LET session ==
               update_user_preferences(Val(sessions[user_id]), preferences)
         IN [sessions |-> [sessions EXCEPT ![user_id] = Some(session)],
             session |-> Some(session)]

\* POST /api/users/{user_id}/preferences: update_user_preferences, then
\* vector_db.add_user on what it returned.  add_user(None) raises
\* AttributeError; a ValueError is answered with 404 and any other
\* exception with 500.
add_user_preferences(user_id, preferences) ==
    LET updated == UpdateUserPreferences(user_sessions, user_id, preferences)
        arg == <<user_id, preferences>>
    IN /\ Listening
       /\ before' = collection
       /\ UNCHANGED <<ret, users_list, _db_instance, instances, concVars>>
       /\ user_sessions' = updated.sessions
       /\ IF IsNone(updated.session)
          THEN /\ response' = Answer("add_user_preferences", arg, 500,
                                     "Failed to save preferences", PyNone,
                                     <<>>, "AttributeError")
               /\ UNCHANGED <<collection, written, saved>>
          ELSE LET user_session == Val(updated.session)
               IN /\ saved' = [saved EXCEPT ![user_id] = Some(preferences)]
                  /\ \E outcome \in AddOutcomes(user_session) :
                       IF outcome = "encoder raises"
                       THEN /\ response' =
                                 Answer("add_user_preferences", arg, 500,
                                        "Failed to save preferences", PyNone,
                                        <<>>, "EncoderError")
                            /\ UNCHANGED <<collection, written>>
                       ELSE IF outcome = "metadata refused"
                       THEN /\ response' =
                                 Answer("add_user_preferences", arg, 404,
                                        "str(e)", PyNone, <<>>, "ValueError")
                            /\ UNCHANGED <<collection, written>>
                       ELSE /\ collection' = Added(collection, user_session)
                            /\ written' = [written EXCEPT ![user_id] =
                                              Some(user_session)]
                            /\ response' =
                                 Answer("add_user_preferences", arg, 200,
                                        <<>>, Some(user_session), <<>>,
                                        "none")

\* dict.get(key, default)
Get(dict, key, default) ==
    IF key \in DOMAIN dict THEN dict[key] ELSE default

\* goals[:3] if isinstance(goals, list) else []
TopGoalsOf(goals) ==
    IF goals = NoneList THEN <<>> ELSE FirstK(goals, TopGoals)

\* a SimilarUser whose goals are all the goals of the match
SimilarUserAllGoals(match) ==
    LET metadata == Val(match.metadata)
    IN [user_id |-> match.user_id,
        name |-> Get(metadata, "name", Unknown),
        major |-> Get(metadata, "major", NotSpecified),
        location |-> Get(metadata, "location", NotSpecified),
        goals |-> Get(metadata, "goals", <<>>)]

\* a SimilarUser whose name is read from the key 'major'
SimilarUserNameOfMajor(match) ==
    LET metadata == Val(match.metadata)
    IN [user_id |-> match.user_id,
        name |-> Get(metadata, "major", Unknown),
        major |-> Get(metadata, "major", NotSpecified),
        location |-> Get(metadata, "location", NotSpecified),
        goals |-> TopGoalsOf(Get(metadata, "goals", <<>>))]

\* the arguments the handler gives to SimilarUser for a match; the parsed
\* goals are a list or None and never a str
SimilarUser(match) ==
    LET metadata == Val(match.metadata)
    IN [user_id |-> match.user_id,
        name |-> Get(metadata, "name", Unknown),
        major |-> Get(metadata, "major", NotSpecified),
        location |-> Get(metadata, "location", NotSpecified),
        goals |-> TopGoalsOf(Get(metadata, "goals", <<>>))]

\* pydantic accepts the arguments of SimilarUser: name, major and location
\* are str and goals is a list of str; otherwise it raises ValidationError,
\* which is a ValueError
IsSimilarUser(user) ==
    /\ user.name # NoneStr
    /\ user.major # NoneStr
    /\ user.location # NoneStr
    /\ \A i \in 1..Len(user.goals) : user.goals[i] # NoneStr

\* SimilarUsersResponse(user_id, total_matches, similar_users)
SimilarUsersResponse(user_id, formatted_users) ==
    [user_id |-> user_id, total_matches |-> Len(formatted_users),
     similar_users |-> formatted_users]

\* GET /api/users/{user_id}/similar?top_k=: find_similar_users, then a
\* SimilarUser for every match.  A ValueError raised inside the handler is
\* answered with 404 and any other exception with 500.
get_similar_users(user_id, top_k) ==
    LET arg == <<user_id, top_k>>
    IN /\ Listening
       /\ before' = collection
       /\ UNCHANGED <<collection, ret, written, user_sessions, saved,
                      users_list, _db_instance, instances, concVars>>
       /\ IF ~Stored(collection, user_id)
          THEN response' = Answer("get_similar_users", arg, 404,
                                  NotFoundDetail, PyNone, <<>>, "ValueError")
          ELSE LET dist == Distances(collection,
                                     Val(collection[user_id]).embedding)
               IN \E ord \in Rankings(dist, StoredIds(collection), top_k + 1) :
                    LET results == QueryResult(collection, dist, ord)
                        similar_users ==
                           FirstK(SimilarUsers(results, user_id, TRUE), top_k)
                        formatted_users ==
                           [i \in 1..Len(similar_users) |->
                               SimilarUser(similar_users[i])]
                    IN response' =
                         IF \A i \in 1..Len(formatted_users) :
                               IsSimilarUser(formatted_users[i])
                         THEN Answer("get_similar_users", arg, 200, <<>>,
                                     Some(SimilarUsersResponse(
                                             user_id, formatted_users)),
                                     similar_users, "none")
                         ELSE Answer("get_similar_users", arg, 404,
                                     NotFoundDetail, PyNone, similar_users,
                                     "ValidationError")

NextApi ==
    \/ \E user_data \in ApiRequests : create_user(user_data)
    \/ \E user_id \in UserIds, preferences \in ApiPreferences :
          add_user_preferences(user_id, preferences)
    \/ \E user_id \in UserIds, top_k \in TopKs :
          get_similar_users(user_id, top_k)
    \/ Respond

SpecApi == InitApi /\ [][NextApi]_vars

(***************************************************************************)
(* embeddings.create_user_text, get_user_embedding and batch_get_embeddings *)
(* on sessions that lack fields, hold None, blank and padded values, and   *)
(* lists with None, blank and padded items.  The idle caller holds in arg  *)
(* the list of sessions it is about to pass, whole or one by one.          *)
(***************************************************************************)
MaxBatch == 2      \* longest list handed to batch_get_embeddings

TextPreferences ==
    { PyNone }
      \cup { Prefs(goals, favorites) :
               goals \in { NoneList, <<>>, << <<" ">>, NoneStr >>,
                           << <<"a", " ">>, <<>>, <<" ", "b">> >> },
               favorites \in { NoneList, << <<"b">> >>,
                               << <<"a", ",">>, <<" ">>, <<"a">> >> } }

TextSessions ==
    { Session(1, Body(major, location, preferences, <<>>)) :
        major \in { NoneStr, <<" ">>, <<" ", "a", " ">> },
        location \in { NoneStr, <<>>, <<"b", " ">> },
        preferences \in TextPreferences }

\* sessions whose texts differ in length and in their vectors
BatchSessions ==
    { Session(1, Body(major, <<>>, preferences, <<>>)) :
        major \in { NoneStr, <<"a">> },
        preferences \in { PyNone, Prefs(<< <<"b">>, <<"a", "b">> >>, <<>>) } }

\* the lists of at most n sessions
RECURSIVE BatchesUpTo(_)
BatchesUpTo(n) ==
    IF n = 0 THEN { <<>> }
    ELSE BatchesUpTo(n - 1)
           \cup { Append(sessions, session) :
                    sessions \in BatchesUpTo(n - 1), session \in BatchSessions }

InitEmbeddings ==
    /\ ret \in { [Idle(PyNone, FALSE) EXCEPT !.arg = sessions] :
                   sessions \in BatchesUpTo(MaxBatch)
                                  \cup { <<session>> : session \in TextSessions } }
    /\ collection = EmptyCollection
    /\ before = EmptyCollection
    /\ written = [id \in UserIds |-> PyNone]
    /\ thread = [t \in Threads |-> Start]
    /\ store = LiveStore
    /\ initial = EmptyCollection
    /\ AppStart

\* the place of text i when the texts are put in the descending order of
\* their lengths, texts of one length in the order they have
LengthRank(texts, i) ==
    1 + Cardinality({ j \in 1..Len(texts) :
                        \/ Len(texts[j]) > Len(texts[i])
                        \/ Len(texts[j]) = Len(texts[i]) /\ j < i })

\* model.encode(texts) that returns the vectors in the order of encoding
EncodeBatchByLength(texts) ==
    [k \in 1..Len(texts) |->
        Encode(texts[CHOOSE i \in 1..Len(texts) : LengthRank(texts, i) = k])]

\* model.encode(texts) on a list: the encoder takes the texts in the
\* descending order of their lengths and returns the vectors in the order
\* of the texts
EncodeBatch(texts) ==
    LET encoded == EncodeBatchByLength(texts)
    IN [i \in 1..Len(texts) |-> encoded[LengthRank(texts, i)]]

\* embeddings.batch_get_embeddings
batch_get_embeddings(sessions) ==
    LET texts == [i \in 1..Len(sessions) |-> create_user_text(sessions[i])]
    IN EncodeBatch(texts)

\* text = create_user_text(session)
CreateUserText(i) ==
    /\ Ready
    /\ i \in 1..Len(ret.arg)
    /\ ret' = Call("create_user_text", ret.arg[i], "none",
                   create_user_text(ret.arg[i]), <<>>)
    /\ UNCHANGED <<collection, before, written, concVars, appVars>>

\* embedding = get_user_embedding(session), unless the encoder raises
GetUserEmbedding(i) ==
    /\ Ready
    /\ i \in 1..Len(ret.arg)
    /\ \E outcome \in {"encoded", "encoder raises"} :
         ret' = IF outcome = "encoder raises"
                THEN [Call("get_user_embedding", ret.arg[i], "EncoderError",
                           <<>>, <<>>) EXCEPT !.encoded = "failed"]
                ELSE [Call("get_user_embedding", ret.arg[i], "none",
                           get_user_embedding(ret.arg[i]), <<>>)
                        EXCEPT !.encoded = "ok"]
    /\ UNCHANGED <<collection, before, written, concVars, appVars>>

\* embeddings = batch_get_embeddings(sessions), unless the encoder raises
BatchGetEmbeddings ==
    /\ Ready
    /\ \E outcome \in {"encoded", "encoder raises"} :
         ret' = IF outcome = "encoder raises"
                THEN [Call("batch_get_embeddings", ret.arg, "EncoderError",
                           <<>>, <<>>) EXCEPT !.encoded = "failed"]
                ELSE [Call("batch_get_embeddings", ret.arg, "none",
                           batch_get_embeddings(ret.arg), <<>>)
                        EXCEPT !.encoded = "ok"]
    /\ UNCHANGED <<collection, before, written, concVars, appVars>>

NextEmbeddings ==
    \/ \E i \in 1..(MaxBatch + 1) : CreateUserText(i)
    \/ \E i \in 1..(MaxBatch + 1) : GetUserEmbedding(i)
    \/ BatchGetEmbeddings

SpecEmbeddings == InitEmbeddings /\ [][NextEmbeddings]_vars

(***************************************************************************)
(* vector_db.get_db called from several threads.  A step is one statement  *)
(* of get_db: the test of _db_instance, the construction of a UserVectorDB, *)
(* the assignment to _db_instance, the return.                             *)
(***************************************************************************)
MaxCalls == 2      \* calls of get_db, or of register, a thread makes

\* the persist_directory arguments of the calls
Directories == { "./chroma_data", "./test_chroma_data" }

InitDb ==
    /\ collection = EmptyCollection
    /\ before = EmptyCollection
    /\ written = [id \in UserIds |-> PyNone]
    /\ ret = Idle(PyNone, FALSE)
    /\ thread = [t \in Threads |-> Start]
    /\ store = LiveStore
    /\ initial = EmptyCollection
    /\ AppStart

dbVars == <<collection, store, initial, seqVars, user_sessions, saved,
            response, users_list>>

\* if _db_instance is None:
get_db_test(t, persist_directory) ==
    /\ thread[t].pc \in {"start", "done"}
    /\ thread[t].calls < MaxCalls
    /\ thread' = [thread EXCEPT ![t] =
                     [@ EXCEPT !.pc = IF IsNone(_db_instance)
                                      THEN "get_db:construct"
                                      ELSE "get_db:return",
                               !.op = "get_db",
                               !.arg = persist_directory]]
    /\ UNCHANGED <<_db_instance, instances, dbVars>>

\* UserVectorDB(persist_directory)
get_db_construct(t) ==
    /\ thread[t].pc = "get_db:construct"
    /\ instances' = instances + 1
    /\ thread' = [thread EXCEPT ![t] =
                     [@ EXCEPT !.pc = "get_db:assign",
                               !.loc = [number |-> instances + 1,
                                        persist_directory |-> thread[t].arg]]]
    /\ UNCHANGED <<_db_instance, dbVars>>

\* _db_instance = the instance constructed
get_db_assign(t) ==
    /\ thread[t].pc = "get_db:assign"
    /\ _db_instance' = Some(thread[t].loc)
    /\ thread' = [thread EXCEPT ![t].pc = "get_db:return"]
    /\ UNCHANGED <<instances, dbVars>>

\* return _db_instance
get_db_return(t) ==
    /\ thread[t].pc = "get_db:return"
    /\ thread' = [thread EXCEPT ![t] =
                     [@ EXCEPT !.pc = "done",
                               !.value = Val(_db_instance),
                               !.results = Append(@, Val(_db_instance)),
                               !.calls = @ + 1]]
    /\ UNCHANGED <<_db_instance, instances, dbVars>>

NextDb ==
    \E t \in Threads :
       \/ \E persist_directory \in Directories :
             get_db_test(t, persist_directory)
       \/ get_db_construct(t)
       \/ get_db_assign(t)
       \/ get_db_return(t)

SpecDb == InitDb /\ [][NextDb]_vars

(***************************************************************************)
(* POST /api/register.  register is a plain function, which the server     *)
(* runs in a thread of its pool, so that several calls run at once.  A     *)
(* step is one statement of register on users_list: the test for the       *)
(* email, the reading of len(users_list), the assignment of the account,   *)
(* the return.  The password hash of an account is left out.               *)
(***************************************************************************)
InitRegister ==
    /\ collection = EmptyCollection
    /\ before = EmptyCollection
    /\ written = [id \in UserIds |-> PyNone]
    /\ ret = Idle(PyNone, FALSE)
    /\ thread = [t \in Threads |-> Start]
    /\ store = LiveStore
    /\ initial = EmptyCollection
    /\ AppStart

registerVars == <<collection, store, initial, seqVars, user_sessions, saved,
                  response, _db_instance, instances>>

\* len(users_list)
Registered == { email \in RegisterEmails : ~IsNone(users_list[email]) }

\* if email in users_list: raise HTTPException(status_code=400, ...)
register_test(t, email) ==
    /\ thread[t].pc \in {"start", "done"}
    /\ thread[t].calls < MaxCalls
    /\ thread' = [thread EXCEPT ![t] =
                     IF email \in Registered
                     THEN [@ EXCEPT !.pc = "done", !.op = "register",
                                    !.arg = email,
                                    !.raised = "HTTPException",
                                    !.value = [status |-> 400, id |-> 0],
                                    !.calls = @ + 1]
                     ELSE [@ EXCEPT !.pc = "register:len", !.op = "register",
                                    !.arg = email, !.raised = "none"]]
    /\ UNCHANGED <<users_list, registerVars>>

\* user_id = len(users_list) + 1
register_len(t) ==
    /\ thread[t].pc = "register:len"
    /\ thread' = [thread EXCEPT ![t] =
                     [@ EXCEPT !.pc = "register:store",
                               !.loc = Cardinality(Registered) + 1]]
    /\ UNCHANGED <<users_list, registerVars>>

\* users_list[email] = {"id": user_id, "email": email, "name": name, ...}
register_store(t) ==
    /\ thread[t].pc = "register:store"
    /\ users_list' = [users_list EXCEPT ![thread[t].arg] =
                         Some([id |-> thread[t].loc, email |-> thread[t].arg,
                               name |-> Name])]
    /\ thread' = [thread EXCEPT ![t].pc = "register:return"]
    /\ UNCHANGED registerVars

\* return {"success": True, "token": token, "user": {...}}
register_return(t) ==
    /\ thread[t].pc = "register:return"
    /\ thread' = [thread EXCEPT ![t] =
                     [@ EXCEPT !.pc = "done",
                               !.value = [status |-> 200, id |-> thread[t].loc],
                               !.calls = @ + 1]]
    /\ UNCHANGED <<users_list, registerVars>>

NextRegister ==
    \E t \in Threads :
       \/ \E email \in RegisterEmails : register_test(t, email)
       \/ register_len(t)
       \/ register_store(t)
       \/ register_return(t)

SpecRegister == InitRegister /\ [][NextRegister]_vars

(***************************************************************************)
(* update_user_preferences and add_user on the sessions of user_sessions,  *)
(* from several threads.  update_user_preferences returns the dict that    *)
(* user_sessions holds, and add_user reads that dict three times: for the  *)
(* embedding, for the text and for the metadata.  Each thread saves        *)
(* preferences for a user and adds the user's session to the store, as the *)
(* preferences endpoint does; a step is one statement's work on the dict   *)
(* or on the collection.                                                   *)
(***************************************************************************)
SharedPreferences ==
    { [favorites |-> <<>>, goals |-> << <<"a">> >>],
      [favorites |-> << <<"b">> >>, goals |-> << <<"b">> >>] }

\* the sessions create_user_session made for the users
CreatedSessions ==
    [id \in UserIds |->
        IF id \in Uuids
        THEN Some(create_user_session(UserCreate(Name, Email, <<"a">>, <<"b">>),
                                      id, <<"1">>))
        ELSE PyNone]

InitShared ==
    /\ collection = EmptyCollection
    /\ before = EmptyCollection
    /\ written = [id \in UserIds |-> PyNone]
    /\ ret = Idle(PyNone, FALSE)
    /\ thread = [t \in Threads |-> Start]
    /\ store = LiveStore
    /\ initial = EmptyCollection
    /\ user_sessions = CreatedSessions
    /\ saved = [id \in UserIds |-> PyNone]
    /\ response = NoRequest
    /\ users_list = [email \in RegisterEmails |-> PyNone]
    /\ _db_instance = PyNone
    /\ instances = 0

sharedVars == <<collection, store, initial, seqVars, saved, response,
                users_list, _db_instance, instances>>

\* session = user_sessions.get(user_id); session['preferences'] = {...}
update_user_preferences_set(t, user_id, preferences) ==
    /\ thread[t].pc = "start"
    /\ ~IsNone(user_sessions[user_id])
    /\ user_sessions' =
          UpdateUserPreferences(user_sessions, user_id, preferences).sessions
    /\ thread' = [thread EXCEPT ![t] =
                     [Thread("add_user:embedding", "add_user",
                             Val(user_sessions'[user_id]))
                        EXCEPT !.loc = [embedding |-> <<>>, text |-> <<>>,
                                        metadata |-> <<>>]]]
    /\ UNCHANGED sharedVars

\* embedding = get_user_embedding(session), on the dict as it is now
add_user_embedding(t) ==
    /\ thread[t].pc = "add_user:embedding"
    /\ LET session == Val(user_sessions[thread[t].arg.id])
       IN \E outcome \in {"encoded", "encoder raises"} :
            thread' = [thread EXCEPT ![t] =
               IF outcome = "encoder raises"
               THEN [@ EXCEPT !.pc = "done", !.raised = "EncoderError"]
               ELSE [@ EXCEPT !.pc = "add_user:text",
                              !.loc.embedding = get_user_embedding(session)]]
    /\ UNCHANGED <<user_sessions, sharedVars>>

\* text = create_user_text(session), on the dict as it is now
add_user_text(t) ==
    /\ thread[t].pc = "add_user:text"
    /\ LET session == Val(user_sessions[thread[t].arg.id])
       IN thread' = [thread EXCEPT ![t] =
                        [@ EXCEPT !.pc = "add_user:metadata",
                                  !.loc.text = create_user_text(session)]]
    /\ UNCHANGED <<user_sessions, sharedVars>>

\* metadata = self._prepare_metadata(session), on the dict as it is now
add_user_metadata(t) ==
    /\ thread[t].pc = "add_user:metadata"
    /\ LET session == Val(user_sessions[thread[t].arg.id])
       IN thread' = [thread EXCEPT ![t] =
                        [@ EXCEPT !.pc = "add_user:load",
                                  !.loc.metadata = _prepare_metadata(session)]]
    /\ UNCHANGED <<user_sessions, sharedVars>>

NextShared ==
    \E t \in Threads :
       \/ \E user_id \in Uuids, preferences \in SharedPreferences :
             update_user_preferences_set(t, user_id, preferences)
       \/ add_user_embedding(t)
       \/ add_user_text(t)
       \/ add_user_metadata(t)
       \/ add_user_load(t)
       \/ add_user_upsert(t)

SpecShared == InitShared /\ [][NextShared]_vars

(***************************************************************************)
(* Properties.  In a state, ret describes the call that led to it, before  *)
(* is the collection that call started from and collection the one it left.*)
(***************************************************************************)
Returned(op) == ret.op = op /\ ret.raised = "none"

\* the entries of a query result other than the one of the query user
Others(results, user_id) ==
    LET NotSelf(r) == r.id # user_id IN SelectSeq(results, NotSelf)

\* what get_user returns for a record written from a session
RecordOf(session) ==
    [id |-> session.id,
     text |-> create_user_text(session),
     metadata |-> _parse_metadata(_prepare_metadata(session)),
     embedding |-> get_user_embedding(session)]

\* C1: the list returned by find_similar_users(X, top_k) has no entry whose
\* user_id is X, also when other records are at distance 0 from X.
C1_SelfExclusion ==
    Returned("find_similar_users") =>
        \A i \in 1..Len(ret.value) : ret.value[i].user_id # ret.arg[1]

\* a query whose answer holds X itself and another record at distance 0
C1_Witness ==
    /\ Returned("find_similar_users")
    /\ \E i \in 1..Len(ret.results) : ret.results[i].id = ret.arg[1]
    /\ \E i \in 1..Len(ret.results) :
          ret.results[i].id # ret.arg[1] /\ ret.results[i].distance = 0
    /\ Len(ret.value) >= 1

\* C2: find_similar_users(X, top_k) returns at most top_k entries, and
\* exactly min(top_k, count_users() - 1) of them: all the other records when
\* there are fewer than top_k, none when X is alone.
C2_TopKBound ==
    Returned("find_similar_users") =>
        /\ Len(ret.value) <= ret.arg[2]
        /\ Len(ret.value) = Min(ret.arg[2], Count(collection) - 1)

\* a query with fewer other records than top_k, which returns all of them
C2_Witness ==
    /\ Returned("find_similar_users")
    /\ Count(collection) >= 2
    /\ Count(collection) - 1 < ret.arg[2]
    /\ Len(ret.value) = Count(collection) - 1

C4_FullReplace ==
    Returned("add_user") =>
        /\ GetUserValue(collection, ret.arg.id) = Some(RecordOf(ret.arg))
        /\ Stored(before, ret.arg.id) => Count(collection) = Count(before)
        /\ \A id \in UserIds \ {ret.arg.id} : collection[id] = before[id]

\* an add_user over a record of the same id that differed in its embedding,
\* its metadata and its document, next to another record
C4_Witness ==
    /\ Returned("add_user")
    /\ Stored(before, ret.arg.id)
    /\ Val(before[ret.arg.id]).embedding # Val(collection[ret.arg.id]).embedding
    /\ Val(before[ret.arg.id]).metadata.major
         # Val(collection[ret.arg.id]).metadata.major
    /\ Val(before[ret.arg.id]).metadata.goals_json
         # Val(collection[ret.arg.id]).metadata.goals_json
    /\ Val(before[ret.arg.id]).document # Val(collection[ret.arg.id]).document
    /\ Count(collection) >= 2

\* C5: an add_user that repeats the call before it, with the identical
\* profile, leaves what get_user returns for every id and what count_users
\* returns as they were after the first call.
C5_UpsertIdempotent ==
    (Returned("add_user") /\ ret.again) =>
        /\ \A id \in UserIds :
              GetUserValue(collection, id) = GetUserValue(before, id)
        /\ Count(collection) = Count(before)

\* the second of two successive add_user calls with the same profile
C5_Witness ==
    /\ Returned("add_user")
    /\ ret.again
    /\ Stored(collection, ret.arg.id)
    /\ Stored(before, ret.arg.id)

\* the squared distance between the stored embeddings of two ids
StoredDistance(coll, a, b) ==
    Distance(Val(coll[a]).embedding, Val(coll[b]).embedding)

\* C6: the list returned by find_similar_users keeps the order of the
\* collection's answer: its entries are, in that order, the first top_k
\* entries of the answer other than the query user, the similarities do not
\* increase along the list, and no record left out is nearer to the query
\* user than a record returned.
C6_ResultOrder ==
    Returned("find_similar_users") =>
        LET user_id == ret.arg[1]
            others == Others(ret.results, user_id)
            returned == { ret.value[i].user_id : i \in 1..Len(ret.value) }
        IN /\ Len(ret.value) <= Len(others)
           /\ \A i \in 1..Len(ret.value) : ret.value[i].user_id = others[i].id
           /\ \A i, j \in 1..Len(ret.value) :
                 i < j => ret.value[i].similarity >= ret.value[j].similarity
           /\ Cardinality(returned) = Len(ret.value)
           /\ \A r \in returned :
                 \A o \in StoredIds(collection) \ (returned \cup {user_id}) :
                    StoredDistance(collection, user_id, r)
                      <= StoredDistance(collection, user_id, o)

\* two returned entries at the same distance, in the order of the
\* collection's answer and not in the order of their ids, followed by none
\* that is nearer
C6_Witness ==
    /\ Returned("find_similar_users")
    /\ Len(ret.value) = 2
    /\ ret.value[1].similarity = ret.value[2].similarity
    /\ ret.value[1].user_id > ret.value[2].user_id
    /\ Count(collection) = 3

\* C7: every entry returned by find_similar_users has the similarity
\* max(0, 1 - distance / 2) of the distance the collection reported, which
\* lies in [0, 1], is 0 for a distance above 2 and 1 for the distance 0.
C7_SimilarityBounds ==
    Returned("find_similar_users") =>
        LET others == Others(ret.results, ret.arg[1])
        IN \A i \in 1..Len(ret.value) :
              /\ others[i].distance >= 0
              /\ ret.value[i].similarity
                   = Max(0, SimScale - others[i].distance)
              /\ ret.value[i].similarity >= 0
              /\ ret.value[i].similarity <= SimScale
              /\ others[i].distance > 2 => ret.value[i].similarity = 0
              /\ others[i].distance = 0 => ret.value[i].similarity = SimScale

\* a list with an entry at a distance above 2 after an entry at a distance
\* below 2
C7_Witness ==
    /\ Returned("find_similar_users")
    /\ Len(ret.value) = 2
    /\ Others(ret.results, ret.arg[1])[1].distance = 1
    /\ ret.value[1].similarity = 1
    /\ Others(ret.results, ret.arg[1])[2].distance > 2
    /\ ret.value[2].similarity = 0

\* the ids added and not afterwards deleted or cleared
AddedIds == { id \in UserIds : ~IsNone(written[id]) }

\* C8: the count is the number of distinct ids added and not afterwards
\* deleted or cleared, count_users returns it, and add_user on a stored id,
\* get_user, find_similar_users and count_users leave it as it was.
C8_Count ==
    /\ Count(collection) = Cardinality(AddedIds)
    /\ Returned("count_users") => ret.value = Cardinality(AddedIds)
    /\ ret.op \in {"get_user", "find_similar_users", "count_users"}
          => Count(collection) = Count(before)
    /\ (ret.op = "add_user" /\ Stored(before, ret.arg.id))
          => Count(collection) = Count(before)

\* a delete_user that removed one of several records, counted afterwards
C8_Witness ==
    /\ Returned("delete_user")
    /\ Stored(before, ret.arg)
    /\ Count(before) = Count(collection) + 1
    /\ Cardinality(AddedIds) = 2

\* C9: delete_user(id) removes the record of id, returns True exactly when
\* a record of id existed before the call and False when none did, never
\* raises, and leaves every other record as it was.
C9_DeleteReturn ==
    ret.op = "delete_user" =>
        /\ ret.raised = "none"
        /\ ret.value = Stored(before, ret.arg)
        /\ ~Stored(collection, ret.arg)
        /\ \A id \in UserIds \ {ret.arg} : collection[id] = before[id]

\* C10: get_user(id) returns the id, embedding, metadata and document of the
\* last add_user of a stored id, None for an id that is not stored, and
\* never raises.
C10_GetUser ==
    ret.op = "get_user" =>
        /\ ret.raised = "none"
        /\ ret.value = IF IsNone(written[ret.arg]) THEN PyNone
                       ELSE Some(RecordOf(Val(written[ret.arg])))
        /\ IsNone(ret.value) <=> ~Stored(before, ret.arg)
        /\ collection = before

\* a get_user of a record whose goals are read back from their JSON text
C10_Witness ==
    /\ Returned("get_user")
    /\ ~IsNone(ret.value)
    /\ Val(ret.value).id = ret.arg
    /\ Len(Val(ret.value).metadata.goals) = 2
    /\ Val(ret.value).text # <<>>

C12_Validation ==
    (ret.op = "add_user" /\ ret.arg.id \in {NoId, EmptyId}) =>
        /\ ret.raised = "ValueError"
        /\ ret.encoded = "no"
        /\ collection = before
        /\ Count(collection) = Count(before)

\* an add_user with the id '' on a collection that holds records
C12_Witness ==
    /\ ret.op = "add_user"
    /\ ret.arg.id = EmptyId
    /\ ret.raised = "ValueError"
    /\ Count(collection) >= 1

\* C15: on an empty store find_similar_users returns the empty list and
\* does not raise.
C15_EmptyStore ==
    (ret.op = "find_similar_users" /\ Count(before) = 0) =>
        ret.raised = "none" /\ ret.value = <<>>

\* C19: when the encoder raises inside add_user, the exception reaches the
\* caller and the collection is left as it was: no record is created or
\* changed, and none holds a zero vector in place of its embedding.
C19_EncodingFailure ==
    (ret.op = "add_user" /\ ret.encoded = "failed") =>
        /\ ret.raised = "EncoderError"
        /\ collection = before
        /\ \A id \in StoredIds(collection) :
              Val(collection[id]).embedding
                = get_user_embedding(Val(written[id]))

\* an encoder failure in an add_user that would have replaced a record
C19_Witness ==
    /\ ret.op = "add_user"
    /\ ret.encoded = "failed"
    /\ ret.raised = "EncoderError"
    /\ Stored(before, ret.arg.id)
    /\ written[ret.arg.id] # Some(ret.arg)

\* the versions of the record of id: the one the threads found and the one
\* of every add_user of id among the threads' calls
Versions(id) ==
    (IF Stored(initial, id) THEN {Val(initial[id])} ELSE {})
      \cup { Val(Added(EmptyCollection, thread[t].arg)[id]) :
               t \in { u \in Threads : /\ thread[u].op = "add_user"
                                       /\ thread[u].arg.id = id } }

\* what get_user returns for a version of a record
Read(version) ==
    [id |-> version.id, text |-> version.document,
     metadata |-> _parse_metadata(version.metadata),
     embedding |-> version.embedding]

\* C13: whatever the interleaving of add_user on an id with get_user and
\* find_similar_users in another thread, the reader sees the record of the
\* id absent or whole: get_user returns None or the id, document, metadata
\* and embedding of one version, the embedding find_similar_users queries
\* with is the embedding of one version, and every entry of the query's
\* answer and of the list returned has the distance and the metadata of one
\* version of its record.
C13_AtomicVisibility ==
    \A t \in Threads :
       /\ (thread[t].op = "get_user" /\ thread[t].pc = "done"
             /\ thread[t].raised = "none" /\ ~IsNone(thread[t].value)) =>
             \E v \in Versions(thread[t].arg) :
                Val(thread[t].value) = Read(v)
       /\ (thread[t].op = "find_similar_users" /\ thread[t].calls >= 1
             /\ thread[t].raised = "none") =>
             /\ \E v \in Versions(thread[t].arg[1]) :
                   thread[t].loc = v.embedding
             /\ \A i \in 1..Len(thread[t].results) :
                   \E v \in Versions(thread[t].results[i].id) :
                      /\ thread[t].results[i].metadata = v.metadata
                      /\ thread[t].results[i].distance
                           = Distance(thread[t].loc, v.embedding)
             /\ \A i \in 1..Len(thread[t].value) :
                   \E v \in Versions(thread[t].value[i].user_id) :
                      /\ thread[t].value[i].similarity
                           = Similarity(Distance(thread[t].loc, v.embedding))
                      /\ thread[t].arg[3] =>
                           thread[t].value[i].metadata
                             = Some(_parse_metadata(v.metadata))

\* a find_similar_users on an id that read the embedding before an add_user
\* of another thread replaced the record of the id and queried after it: the
\* answer holds the new record of the id, whole, and another record
C13_Witness ==
    \E t, u \in Threads :
       /\ thread[u].op = "add_user" /\ thread[u].pc = "done"
       /\ thread[u].raised = "none"
       /\ thread[t].op = "find_similar_users" /\ thread[t].pc = "done"
       /\ thread[t].raised = "none"
       /\ thread[t].arg[1] = thread[u].arg.id
       /\ Stored(initial, thread[u].arg.id)
       /\ thread[t].loc = Val(initial[thread[u].arg.id]).embedding
       /\ thread[t].loc # thread[u].loc.embedding
       /\ \E i \in 1..Len(thread[t].results) :
             /\ thread[t].results[i].id = thread[u].arg.id
             /\ thread[t].results[i].metadata = thread[u].loc.metadata
             /\ thread[t].results[i].distance
                  = Distance(thread[t].loc, thread[u].loc.embedding)
       /\ Len(thread[t].value) = 1

\* what the call of thread t does to a collection when it runs alone
Effect(coll, t) ==
    IF thread[t].op = "add_user"
    THEN (IF thread[t].arg.id \in UserIds /\ thread[t].raised # "EncoderError"
          THEN Added(coll, thread[t].arg) ELSE coll)
    ELSE IF thread[t].op = "delete_user" THEN Delete(coll, thread[t].arg)
    ELSE IF thread[t].op = "clear_all" THEN EmptyCollection
    ELSE coll

\* C14: whatever the interleaving of the calls of the threads, no call
\* fails because the collection it acts on is gone, no call acts on the
\* collection object of a deleted collection, and when all calls have ended
\* the collection is what the calls leave when they run one after the other
\* in some order.
C14_ConcurrentMutations ==
    /\ \A t \in Threads : thread[t].raised # "CollectionError"
    /\ \A t \in Threads : ~thread[t].stale
    /\ (\A t \in Threads : thread[t].pc = "done") =>
          \E a \in Threads : \E b \in Threads \ {a} :
             collection = Effect(Effect(initial, a), b)

\* C16: for every list of strings, also the empty one and those whose items
\* hold commas, quotes, backslashes or brackets, the goals and the favorites
\* that _parse_metadata reads from the metadata _prepare_metadata wrote are
\* the lists of the session: the same items in the same order.
C16_MetadataRoundTrip ==
    ret.op = "_parse_metadata" =>
        /\ ret.value.goals = Val(ret.arg.preferences).goals
        /\ ret.value.favorites = Val(ret.arg.preferences).favorites

\* a round trip of two goals that hold a quote, a comma and a backslash
C16_Witness ==
    /\ ret.op = "_parse_metadata"
    /\ ret.value.goals = << <<Quote, ",", " ", Quote>>, <<Backslash, Quote>> >>
    /\ ret.results.goals_json # <<>>
    /\ ret.value.favorites = << <<"[", "]">> >>

\* the list a session holds under a key of its preferences
ListOf(session, key) ==
    IF IsNone(session.preferences) THEN <<>>
    ELSE Val(session.preferences)[key]

\* the metadata to read from the record of id, which add_user wrote from
\* the session written[id]: a list whose text has been damaged is empty
Recovered(coll, id) ==
    LET raw == Val(coll[id]).metadata
        session == Val(written[id])
    IN [major |-> raw.major,
        location |-> raw.location,
        goals |-> IF raw.goals_json \in CorruptTexts THEN <<>>
                  ELSE ListOf(session, "goals"),
        favorites |-> IF raw.favorites_json \in CorruptTexts THEN <<>>
                      ELSE ListOf(session, "favorites"),
        created_at |-> raw.created_at]

\* C17: when the goals_json or favorites_json of a stored record is not
\* JSON, get_user and find_similar_users still return, the field read from
\* it is the empty list, the other fields of the record and the metadata of
\* the other records are what was written, and no record is missing from
\* the list returned.
C17_CorruptMetadata ==
    /\ (ret.op = "get_user" /\ Stored(before, ret.arg)) =>
          /\ ret.raised = "none"
          /\ Val(ret.value).metadata = Recovered(collection, ret.arg)
    /\ (ret.op = "find_similar_users" /\ Stored(before, ret.arg[1])) =>
          /\ ret.raised = "none"
          /\ Len(ret.value) = Min(ret.arg[2], Count(collection) - 1)
          /\ \A i \in 1..Len(ret.value) :
                ret.arg[3] =>
                   ret.value[i].metadata
                     = Some(Recovered(collection, ret.value[i].user_id))

\* a list with a record whose goals are damaged, read as no goals next to
\* its favorites, and a record whose goals are intact
C17_Witness ==
    /\ Returned("find_similar_users")
    /\ ret.arg[3]
    /\ Len(ret.value) = 2
    /\ \E i, j \in 1..2 :
          /\ Val(collection[ret.value[i].user_id]).metadata.goals_json
               \in CorruptTexts
          /\ Val(ret.value[i].metadata).goals = <<>>
          /\ Val(ret.value[i].metadata).favorites # <<>>
          /\ Val(collection[ret.value[j].user_id]).metadata.goals_json
               \notin CorruptTexts
          /\ Val(ret.value[j].metadata).goals # <<>>

\* C18: in every record add_user writes, the metadata values major and
\* location are strings, the empty string for a field that is absent or
\* None, and the goals and favorites read back are lists, the empty list
\* when the preferences, the goals or the favorites are absent or None.
C18_FieldDefaults ==
    Returned("add_user") =>
        LET session == ret.arg
            stored == Val(collection[session.id]).metadata
            read == Val(GetUserValue(collection, session.id)).metadata
        IN /\ stored.major # NoneStr
           /\ stored.location # NoneStr
           /\ session.major = NoneStr => stored.major = <<>>
           /\ session.location = NoneStr => stored.location = <<>>
           /\ read.goals # NoneList
           /\ read.favorites # NoneList
           /\ ListOf(session, "goals") \in {<<>>, NoneList} => read.goals = <<>>
           /\ ListOf(session, "favorites") \in {<<>>, NoneList} =>
                 read.favorites = <<>>

\* a session without its name and its email
Anonymous(session) == [session EXCEPT !.name = <<>>, !.email = <<>>]

\* s is a part of text
Occurs(s, text) ==
    \E i \in 1..(Len(text) - Len(s) + 1) : SubSeq(text, i, i + Len(s) - 1) = s

\* C20: the record add_user writes is the record of the same session
\* without its name and email: the text, the embedding and the metadata do
\* not depend on them, and neither the name nor the email is part of the
\* document or of a metadata value.
C20_PrivacyBoundary ==
    Returned("add_user") =>
        LET session == ret.arg
            record == Val(collection[session.id])
        IN /\ record = Val(Added(EmptyCollection,
                                 Anonymous(session))[session.id])
           /\ \A s \in {session.name, session.email} :
                 \A field \in {record.document, record.metadata.major,
                               record.metadata.location,
                               record.metadata.goals_json,
                               record.metadata.favorites_json,
                               record.metadata.created_at} :
                    ~Occurs(s, field)

\* an add_user of a session that replaced the record of a session with the
\* same profile and another name and email, and left the record as it was
C20_Witness ==
    /\ Returned("add_user")
    /\ Stored(before, ret.arg.id)
    /\ Val(written[ret.arg.id]) = ret.arg
    /\ collection = before
    /\ collection[ret.arg.id]
         = Added(EmptyCollection, ret.arg)[ret.arg.id]
    /\ ret.arg.name = <<"N", "N">>
    /\ ret.arg.email = <<"@", "E">>
    /\ Val(collection[ret.arg.id]).document # <<>>
    /\ ~ret.again

\* the ids that create_user gave to a session
CreatedIds == { id \in UserIds : ~IsNone(user_sessions[id]) }

\* C21: create_user writes nothing to the vector store, and every id that
\* create_user made and that has a record has a session whose preferences
\* are those an earlier add_user_preferences request for the id saved.
C21_PreferencesFirst ==
    /\ response.op = "create_user" => collection = before
    /\ \A id \in CreatedIds :
          Stored(collection, id) =>
             /\ ~IsNone(saved[id])
             /\ Val(user_sessions[id]).preferences
                  = Some([favorites |-> Val(saved[id]).favorites,
                          goals |-> Val(saved[id]).goals])

\* a user created while another created user has a record: the new one
\* has a session and no record yet
C21_Witness ==
    /\ response.op = "create_user"
    /\ response.status = 201
    /\ \E id \in CreatedIds :
          /\ ~Stored(collection, id)
          /\ IsNone(Val(user_sessions[id]).preferences)
    /\ \E id \in CreatedIds :
          /\ Stored(collection, id)
          /\ Val(user_sessions[id]).preferences # PyNone

\* C22: get_similar_users answers a user_id without a stored record with
\* 404 and the detail 'User not found. Make sure preferences have been
\* added first.', any other failure with 500, and a success with neither
\* status; the user_id without a record is never answered with 500.
C22_StatusKinds ==
    response.op = "get_similar_users" =>
        /\ ~Stored(before, response.arg[1]) =>
              response.status = 404 /\ response.detail = NotFoundDetail
        /\ (Stored(before, response.arg[1]) /\ response.raised # "none") =>
              response.status = 500
        /\ response.raised = "none" => response.status \notin {404, 500}

\* the goals of the session from which the record of id was written
StoredGoals(id) == ListOf(Val(written[id]), "goals")

\* C23: a successful answer of get_similar_users holds user_id,
\* total_matches and similar_users only; total_matches is the number of
\* entries; the entries are those of the list find_similar_users returned,
\* in its order; every entry holds user_id, name, major, location and goals
\* only, without a similarity; and its goals are the first goals of the
\* record, at most 3, in their stored order.
C23_ResponseShape ==
    (response.op = "get_similar_users" /\ response.status = 200) =>
        LET body == Val(response.body)
        IN /\ DOMAIN body = {"user_id", "total_matches", "similar_users"}
           /\ body.user_id = response.arg[1]
           /\ body.total_matches = Len(body.similar_users)
           /\ Len(body.similar_users) = Len(response.matches)
           /\ \A i \in 1..Len(body.similar_users) :
                 LET user == body.similar_users[i]
                     stored == StoredGoals(user.user_id)
                 IN /\ DOMAIN user
                         = {"user_id", "name", "major", "location", "goals"}
                    /\ user.user_id = response.matches[i].user_id
                    /\ Len(user.goals) <= 3
                    /\ user.goals = SubSeq(stored, 1, Min(3, Len(stored)))

\* an answer with two entries, not in the order of their ids, one of them
\* with the first 3 of the 4 goals of its record
C23_Witness ==
    /\ response.op = "get_similar_users"
    /\ response.status = 200
    /\ Val(response.body).total_matches = 2
    /\ Val(response.body).similar_users[1].user_id
         > Val(response.body).similar_users[2].user_id
    /\ \E i \in 1..2 :
          LET user == Val(response.body).similar_users[i]
          IN /\ Len(StoredGoals(user.user_id)) = 4
             /\ user.goals = << <<"a">>, <<"a", "b">>, <<"b">> >>

\* C28: add_user_preferences for a user_id without a session leaves the
\* sessions as they were and makes none, is answered with an error status,
\* and leaves the vector store as it was, also when the store holds a
\* record of the id.
C28_UnknownUser ==
    (response.op = "add_user_preferences"
       /\ IsNone(response.sessions[response.arg[1]])) =>
        /\ user_sessions = response.sessions
        /\ response.raised # "none"
        /\ response.status >= 400
        /\ IsNone(response.body)
        /\ collection = before

\* a preferences request for the id of a loaded user, which has a record
\* and no session, made while another user has a session
C28_Witness ==
    /\ response.op = "add_user_preferences"
    /\ IsNone(user_sessions[response.arg[1]])
    /\ Stored(collection, response.arg[1])
    /\ response.status = 500
    /\ CreatedIds # {}
    /\ response.arg[2].goals # <<>>

\* C30: every entry of similar_users in an answer of get_similar_users has
\* the name 'Unknown', since neither the metadata of a stored record nor
\* the metadata find_similar_users returns has the key 'name'.
C30_NamesUnknown ==
    /\ \A id \in StoredIds(collection) :
          "name" \notin DOMAIN Val(collection[id]).metadata
    /\ response.op = "get_similar_users" =>
          /\ \A i \in 1..Len(response.matches) :
                "name" \notin DOMAIN Val(response.matches[i].metadata)
          /\ response.status = 200 =>
                \A i \in 1..Len(Val(response.body).similar_users) :
                   Val(response.body).similar_users[i].name = Unknown

\* an answer whose entries are a user with a session, whose name is not
\* 'Unknown', and a loaded user
C30_Witness ==
    /\ response.op = "get_similar_users"
    /\ response.status = 200
    /\ Len(Val(response.body).similar_users) = 2
    /\ \E i \in 1..2 :
          LET id == Val(response.body).similar_users[i].user_id
          IN /\ id \in CreatedIds
             /\ Val(user_sessions[id]).name = Name
             /\ Val(response.body).similar_users[i].name = Unknown

\* a str without the blanks at its ends; empty for None and for a blank str
Trimmed(s) ==
    LET filled == { i \in 1..Len(s) : s[i] # " " }
    IN IF s = NoneStr \/ filled = {} THEN <<>>
       ELSE SubSeq(s, CHOOSE i \in filled : \A j \in filled : i <= j,
                      CHOOSE i \in filled : \A j \in filled : i >= j)

\* the items of a list that are not None or blank, trimmed and separated
\* by ', '; empty for None
RECURSIVE CommaList(_)
CommaList(items) ==
    IF items = NoneList \/ items = <<>> THEN <<>>
    ELSE LET rest == CommaList(Tail(items))
             item == Trimmed(Head(items))
         IN IF item = <<>> THEN rest
            ELSE IF rest = <<>> THEN item
            ELSE item \o <<",", " ">> \o rest

\* the labelled fields that have a value, separated by '. '
RECURSIVE Sentence(_)
Sentence(fields) ==
    IF fields = <<>> THEN <<>>
    ELSE LET rest == Sentence(Tail(fields))
             field == Head(fields)
         IN IF field[2] = <<>> THEN rest
            ELSE IF rest = <<>> THEN field[1] \o field[2]
            ELSE field[1] \o field[2] \o <<".", " ">> \o rest

\* C24: create_user_text returns, without raising, the fields Major,
\* Location, Interests (the favorites) and Career goals (the goals) in this
\* order, separated by '. '; a field that is missing, None or blank is left
\* out, the values and the list items are stripped, the items of a list are
\* in their order and separated by ', ' without those that are blank, and
\* the text is empty when no field has a value.
C24_UserText ==
    ret.op = "create_user_text" =>
        LET session == ret.arg
        IN /\ ret.raised = "none"
           /\ ret.value =
                Sentence(<< <<MajorLabel, Trimmed(session.major)>>,
                            <<LocationLabel, Trimmed(session.location)>>,
                            <<InterestsLabel,
                              CommaList(ListOf(session, "favorites"))>>,
                            <<GoalsLabel,
                              CommaList(ListOf(session, "goals"))>> >>)
           /\ (/\ Trimmed(session.major) = <<>>
               /\ Trimmed(session.location) = <<>>
               /\ CommaList(ListOf(session, "favorites")) = <<>>
               /\ CommaList(ListOf(session, "goals")) = <<>>)
                 => ret.value = <<>>

\* the text of a session with a padded major, no location, favorites with
\* a comma and a blank item, and goals with padded and empty items
C24_Witness ==
    /\ ret.op = "create_user_text"
    /\ ret.arg.major = <<" ", "a", " ">>
    /\ ret.arg.location = NoneStr
    /\ ret.value = MajorLabel \o <<"a">> \o <<".", " ">>
                     \o InterestsLabel \o <<"a", ",", ",", " ", "a">>
                     \o <<".", " ">>
                     \o GoalsLabel \o <<"a", ",", " ", "b">>

C26_Singleton ==
    /\ instances <= 1
    /\ \A t, u \in Threads :
          \A i \in 1..Len(thread[t].results) :
             \A j \in 1..Len(thread[u].results) :
                thread[t].results[i] = thread[u].results[j]

\* C29: the accounts of two different emails have different ids, also when
\* their register calls run at once in two threads, and a register call
\* that is answered with 400 is one for an email that has an account.
C29_UniqueIds ==
    /\ \A a, b \in Registered :
          a # b => Val(users_list[a]).id # Val(users_list[b]).id
    /\ \A t \in Threads :
          (thread[t].op = "register" /\ thread[t].raised = "HTTPException") =>
             /\ thread[t].value.status = 400
             /\ thread[t].arg \in Registered

\* the values the session of id has had: as create_user_session made it,
\* and with the preferences of a request
Snapshots(id) ==
    { Val(CreatedSessions[id]) }
      \cup { update_user_preferences(Val(CreatedSessions[id]), preferences) :
               preferences \in SharedPreferences }

\* C27: the document, the embedding and the metadata of every stored record
\* are those of one value that the session of its id has had, also when
\* update_user_preferences changes the session while add_user runs on it.
C27_RecordConsistency ==
    \A id \in StoredIds(collection) :
       \E session \in Snapshots(id) :
          /\ Val(collection[id]).document = create_user_text(session)
          /\ Val(collection[id]).embedding
               = Encode(Val(collection[id]).document)
          /\ Val(collection[id]).metadata = _prepare_metadata(session)

====
